---------------------------- MODULE Spec2Model ----------------------------
(***************************************************************************)
(* A model of the clause detection and clause analysis pipeline of         *)
(* LegalClauseIntelligence: processing/detect_clauses.py and               *)
(* processing/summarize_and_flag.py.                                       *)
(*                                                                         *)
(* Texts are sequences of characters; a character is a one-character      *)
(* string.  The characters that cannot be written inside a TLA+ string    *)
(* are named: "QT" is the double quote and "BT" the backtick.  Positions  *)
(* in a text are 1-based here and 0-based in the Python source.            *)
(***************************************************************************)
EXTENDS Integers, Sequences, FiniteSets, TLC

VARIABLES
    text,          \* detect_clauses: the argument `text`
    seg_result,    \* detect_clauses: the returned list of clauses
    seg_pc,        \* "idle" | "called" | "returned"
    clause_text,   \* detect_keyword_based_risks: the argument `clause_text`
    risk_result,   \* detect_keyword_based_risks: the returned description
    risk_pc,       \* "idle" | "called" | "returned"
    response,      \* parse_gemini_response: what the response is made of
    response_text, \* parse_gemini_response: the argument `response_text`
    parse_result,  \* parse_gemini_response: the dict returned or the exception
    parse_pc,      \* "idle" | "called" | "returned"
    clauses,          \* analyze_clauses_with_gemini: the argument `clauses`
    analyzed_clauses, \* analyze_clauses_with_gemini: the list `analyzed_clauses`
    client,           \* the global `client`: FALSE is None, TRUE a client
    api_key,          \* whether the environment holds GEMINI_API_KEY
    requests,         \* what the service did with the request of each clause so far
    last_analysis,         \* what the last analyze_single_clause returned or raised
    batch_pc,         \* "idle" | "loop" | "returned" | "raised"
    service_calls,    \* the clause numbers generate_content was called for, in this run
    attempts,         \* the calls of get_gemini_client in this run
    constructed,      \* the clients constructed in the process so far
    batches,          \* the calls of analyze_clauses_with_gemini in the process so far
    raw_text,         \* clean_text_for_clause_detection: the argument `text`
    cleaned_text,     \* clean_text_for_clause_detection: the returned text
    clean_pc,         \* "idle" | "called" | "returned"
    fallback_text,    \* parse_non_json_response: the argument `response_text`
    fallback_result,  \* parse_non_json_response: the returned dict
    fallback_pc,      \* "idle" | "called" | "returned"
    numbered_text,    \* detect_numbered_clauses: the argument `text`
    numbered_result,  \* detect_numbered_clauses: the returned list of clauses
    numbered_pc,      \* "idle" | "called" | "returned"
    uploaded_file,    \* main: whether a file was uploaded
    contract_text,    \* main: the pasted text
    extracted_text,   \* main: the text extracted from the file, or the pasted text
    main_pc           \* "idle" | "clicked" | "extract" | "extracted" | "detected" | "analyzing" | "displayed" | "ended" | "failed"

seg_vars == <<text, seg_result, seg_pc>>
risk_vars == <<clause_text, risk_result, risk_pc>>
parse_vars == <<response, response_text, parse_result, parse_pc>>
batch_vars == <<clauses, analyzed_clauses, client, api_key, requests, last_analysis, batch_pc,
                service_calls, attempts, constructed, batches>>
clean_vars == <<raw_text, cleaned_text, clean_pc>>
fallback_vars == <<fallback_text, fallback_result, fallback_pc>>
numbered_vars == <<numbered_text, numbered_result, numbered_pc>>
main_vars == <<uploaded_file, contract_text, extracted_text, main_pc>>
vars == <<seg_vars, risk_vars, parse_vars, batch_vars, clean_vars, fallback_vars, numbered_vars, main_vars>>

(***************************************************************************)
(* Characters and Python's str helpers                                     *)
(***************************************************************************)

\* The characters Python's \s and str.strip() treat as whitespace.
Whitespace == {" ", "\n", "\r", "\t"}

Digits == {"0", "1", "2", "3", "4", "5", "6", "7", "8", "9"}

\* str.lower() on the ASCII letters.
LowerOf ==
    ("A" :> "a") @@ ("B" :> "b") @@ ("C" :> "c") @@ ("D" :> "d") @@ ("E" :> "e") @@
    ("F" :> "f") @@ ("G" :> "g") @@ ("H" :> "h") @@ ("I" :> "i") @@ ("J" :> "j") @@
    ("K" :> "k") @@ ("L" :> "l") @@ ("M" :> "m") @@ ("N" :> "n") @@ ("O" :> "o") @@
    ("P" :> "p") @@ ("Q" :> "q") @@ ("R" :> "r") @@ ("S" :> "s") @@ ("T" :> "t") @@
    ("U" :> "u") @@ ("V" :> "v") @@ ("W" :> "w") @@ ("X" :> "x") @@ ("Y" :> "y") @@
    ("Z" :> "z")

UpperCase == DOMAIN LowerOf

LowerChar(c) == IF c \in UpperCase THEN LowerOf[c] ELSE c

Lower(s) == [i \in 1..Len(s) |-> LowerChar(s[i])]

\* The character at position i, or the empty string past the end of the text.
At(s, i) == IF i >= 1 /\ i <= Len(s) THEN s[i] ELSE ""

\* s[from:to] of Python, with 1-based inclusive `from` and exclusive `to`.
Slice(s, from, to) == IF to <= from THEN <<>> ELSE SubSeq(s, from, to - 1)

RECURSIVE SpacesEnd(_, _)
\* The first position >= i that holds no whitespace (the greedy \s*).
SpacesEnd(s, i) ==
    IF i <= Len(s) /\ s[i] \in Whitespace THEN SpacesEnd(s, i + 1) ELSE i

RECURSIVE SpacesStart(_, _)
\* The last position <= i that holds no whitespace, or 0.
SpacesStart(s, i) ==
    IF i >= 1 /\ s[i] \in Whitespace THEN SpacesStart(s, i - 1) ELSE i

RECURSIVE DigitsEnd(_, _)
\* The first position >= i that holds no digit (the greedy \d+).
DigitsEnd(s, i) ==
    IF i <= Len(s) /\ s[i] \in Digits THEN DigitsEnd(s, i + 1) ELSE i

\* str.strip()
Strip(s) ==
    LET a == SpacesEnd(s, 1)
        b == SpacesStart(s, Len(s))
    IN  IF a > b THEN <<>> ELSE SubSeq(s, a, b)

\* s.startswith(w), tested at position i
StartsWithAt(s, i, w) ==
    /\ i >= 1
    /\ i + Len(w) - 1 <= Len(s)
    /\ \A k \in 1..Len(w) : s[i + k - 1] = w[k]

\* s.endswith(w)
EndsWith(s, w) == Len(w) <= Len(s) /\ StartsWithAt(s, Len(s) - Len(w) + 1, w)

\* `w in s`
Contains(s, w) == \E i \in 1..(Len(s) - Len(w) + 1) : StartsWithAt(s, i, w)

\* ^ under re.MULTILINE: the start of the text or just after a newline.
LineStart(s, i) == i = 1 \/ (i >= 2 /\ i <= Len(s) + 1 /\ s[i - 1] = "\n")

\* The positions of the text where ^ matches, in order.
LineStarts(s) ==
    SelectSeq([i \in 1..Len(s) |-> IF LineStart(s, i) THEN i ELSE 0], LAMBDA i : i # 0)

Replicate(c, n) == [i \in 1..n |-> c]

(***************************************************************************)
(* clean_text_for_clause_detection                                         *)
(***************************************************************************)

RECURSIVE LastNewline(_, _, _)
\* The last newline at a position in lo..hi, or 0.
LastNewline(s, lo, hi) ==
    IF hi < lo THEN 0
    ELSE IF s[hi] = "\n" THEN hi ELSE LastNewline(s, lo, hi - 1)

\* A match of \n\s*\n that starts at position i: the position of its last
\* character, or 0.  The greedy \s* takes the whole whitespace run and gives
\* back characters until a newline follows.
ParaBreakEnd(s, i) ==
    IF At(s, i) # "\n" THEN 0
    ELSE LastNewline(s, i + 1, SpacesEnd(s, i + 1) - 1)

\* The positions of the newlines of the text, in order.
NewlinePositions(s) ==
    SelectSeq([i \in 1..Len(s) |-> IF s[i] = "\n" THEN i ELSE 0], LAMBDA i : i # 0)

RECURSIVE ParaBreaks(_, _, _, _, _)
\* The matches of \n\s*\n in the text, as re.finditer finds them: pairs of
\* the first and the last position of a match.  A match starts at a newline,
\* so the search visits the newlines `nl` in order (from the j-th on); each
\* match is searched from the end of the one before.
ParaBreaks(s, nl, j, from, acc) ==
    IF j > Len(nl) THEN acc
    ELSE LET p == nl[j]
             e == IF p >= from THEN ParaBreakEnd(s, p) ELSE 0
         IN  IF e # 0 THEN ParaBreaks(s, nl, j + 1, e + 1, Append(acc, <<p, e>>))
             ELSE ParaBreaks(s, nl, j + 1, from, acc)

ParaBreakMatches(s) == ParaBreaks(s, NewlinePositions(s), 1, 1, <<>>)

RECURSIVE ReplaceMatches(_, _, _, _, _)
\* The text from position `from` on with each match (from the j-th on)
\* replaced by `by`.
ReplaceMatches(s, m, j, from, by) ==
    IF j > Len(m) THEN Slice(s, from, Len(s) + 1)
    ELSE Slice(s, from, m[j][1]) \o by \o ReplaceMatches(s, m, j + 1, m[j][2] + 1, by)

\* re.sub(r'\n\s*\n', '\n\n', text)
SubParaBreaks(s) == ReplaceMatches(s, ParaBreakMatches(s), 1, 1, <<"\n", "\n">>)

\* re.sub(r' +', ' ', text): of a run of spaces only the first is kept.
SubSpaces(s) ==
    SelectSeq([i \in 1..Len(s) |-> IF s[i] = " " /\ At(s, i - 1) = " " THEN "" ELSE s[i]],
              LAMBDA c : c # "")

\* text.replace('\r\n', '\n').replace('\r', '\n')
NormalizeLineEndings(s) ==
    LET crlf == SelectSeq([i \in 1..Len(s) |->
                              IF s[i] = "\r" /\ At(s, i + 1) = "\n" THEN "" ELSE s[i]],
                          LAMBDA c : c # "")
    IN  [i \in 1..Len(crlf) |-> IF crlf[i] = "\r" THEN "\n" ELSE crlf[i]]

clean_text_for_clause_detection(s) ==
    Strip(NormalizeLineEndings(SubSpaces(SubParaBreaks(s))))

(***************************************************************************)
(* detect_numbered_clauses                                                 *)
(***************************************************************************)

Article == <<"A", "r", "t", "i", "c", "l", "e">>

Section == <<"S", "e", "c", "t", "i", "o", "n">>

\* The number of numbered-section patterns, tried in this order:
\* 1: \d+\.\s   2: \d+\.\d+\s   3: \(\d+\)\s   4: [A-Z]\.\s
\* 5: Article\s+\d+   6: Section\s+\d+
NumPatterns == 6

\* Word\s+\d+ at position q: the position after the match, or 0.
WordNumberEnd(s, q, w) ==
    IF ~StartsWithAt(s, q, w) THEN 0
    ELSE LET sp == SpacesEnd(s, q + Len(w))
             d  == DigitsEnd(s, sp)
         IN  IF sp > q + Len(w) /\ d > sp THEN d ELSE 0

\* The group of pattern k matched at position q: the position after the
\* match, or 0 when it does not match there.
MarkerEnd(k, s, q) ==
    CASE k = 1 ->
           LET d == DigitsEnd(s, q)
           IN  IF d > q /\ At(s, d) = "." /\ At(s, d + 1) \in Whitespace
               THEN d + 2 ELSE 0
      [] k = 2 ->
           LET d1 == DigitsEnd(s, q)
               d2 == DigitsEnd(s, d1 + 1)
           IN  IF d1 > q /\ At(s, d1) = "." /\ d2 > d1 + 1 /\ At(s, d2) \in Whitespace
               THEN d2 + 1 ELSE 0
      [] k = 3 ->
           LET d == DigitsEnd(s, q + 1)
           IN  IF At(s, q) = "(" /\ d > q + 1 /\ At(s, d) = ")"
                  /\ At(s, d + 1) \in Whitespace
               THEN d + 2 ELSE 0
      [] k = 4 ->
           IF At(s, q) \in UpperCase /\ At(s, q + 1) = "." /\ At(s, q + 2) \in Whitespace
           THEN q + 3 ELSE 0
      [] k = 5 -> WordNumberEnd(s, q, Article)
      [] OTHER -> WordNumberEnd(s, q, Section)

\* ^\s*(group) matched at position p: the position after the match, or 0.
NumberedMatchEnd(k, s, p) ==
    IF LineStart(s, p) THEN MarkerEnd(k, s, SpacesEnd(s, p)) ELSE 0

RECURSIVE NumberedMatches(_, _, _, _, _, _)
\* The starts of list(re.finditer(pattern k, text, re.MULTILINE)).  A match
\* starts where ^ matches, so the search visits the line starts `ls` in order
\* (from the j-th on); each match is searched from the end of the one before.
NumberedMatches(k, s, ls, j, from, acc) ==
    IF j > Len(ls) THEN acc
    ELSE LET p == ls[j]
             e == IF p >= from THEN NumberedMatchEnd(k, s, p) ELSE 0
         IN  IF e # 0 THEN NumberedMatches(k, s, ls, j + 1, e, Append(acc, p))
             ELSE NumberedMatches(k, s, ls, j + 1, from, acc)

\* The loop over the matches with every clause running to the end of the text.
SplitAtMatchesToEnd(s, starts) ==
    SelectSeq([i \in 1..Len(starts) |-> Strip(Slice(s, starts[i], Len(s) + 1))],
              LAMBDA c : c # <<>>)

\* The loop over the matches: clause i runs from the start of match i to the
\* start of match i+1 (the end of the text for the last), stripped, and is
\* kept when it is not empty.
SplitAtMatches(s, starts) ==
    SelectSeq([i \in 1..Len(starts) |->
                  Strip(Slice(s, starts[i],
                              IF i < Len(starts) THEN starts[i + 1] ELSE Len(s) + 1))],
              LAMBDA c : c # <<>>)

\* The matches of pattern k in the whole text.
NumberedStarts(k, s, ls) == NumberedMatches(k, s, ls, 1, 1, <<>>)

RECURSIVE NumberedFrom(_, _, _)
\* The loop over the patterns, from pattern k on: the first pattern with at
\* least two matches decides.
NumberedFrom(k, s, ls) ==
    IF k > NumPatterns THEN <<>>
    ELSE LET starts == NumberedStarts(k, s, ls)
         IN  IF Len(starts) >= 2 THEN SplitAtMatches(s, starts)
             ELSE NumberedFrom(k + 1, s, ls)

detect_numbered_clauses(s) == NumberedFrom(1, s, LineStarts(s))

(***************************************************************************)
(* detect_header_based_clauses                                             *)
(***************************************************************************)

\* The 27 header names of the combined pattern, in its order; the pattern is
\* searched with re.IGNORECASE, so each is kept in lower case and compared
\* with the lower-cased text.
headers ==
    <<
       <<"t", "e", "r", "m", "i", "n", "a", "t", "i", "o", "n">>,
       <<"l", "i", "a", "b", "i", "l", "i", "t", "y">>,
       <<"c", "o", "n", "f", "i", "d", "e", "n", "t", "i", "a", "l", "i", "t", "y">>,
       <<"n", "o", "n", "-", "d", "i", "s", "c", "l", "o", "s", "u", "r", "e">>,
       <<"p", "a", "y", "m", "e", "n", "t">>,
       <<"i", "n", "t", "e", "l", "l", "e", "c", "t", "u", "a", "l", " ", "p", "r", "o", "p", "e", "r", "t", "y">>,
       <<"g", "o", "v", "e", "r", "n", "i", "n", "g", " ", "l", "a", "w">>,
       <<"d", "i", "s", "p", "u", "t", "e", " ", "r", "e", "s", "o", "l", "u", "t", "i", "o", "n">>,
       <<"f", "o", "r", "c", "e", " ", "m", "a", "j", "e", "u", "r", "e">>,
       <<"i", "n", "d", "e", "m", "n", "i", "f", "i", "c", "a", "t", "i", "o", "n">>,
       <<"w", "a", "r", "r", "a", "n", "t", "i", "e", "s">>,
       <<"l", "i", "m", "i", "t", "a", "t", "i", "o", "n", " ", "o", "f", " ", "l", "i", "a", "b", "i", "l", "i", "t", "y">>,
       <<"e", "n", "t", "i", "r", "e", " ", "a", "g", "r", "e", "e", "m", "e", "n", "t">>,
       <<"a", "m", "e", "n", "d", "m", "e", "n", "t">>,
       <<"a", "s", "s", "i", "g", "n", "m", "e", "n", "t">>,
       <<"s", "e", "v", "e", "r", "a", "b", "i", "l", "i", "t", "y">>,
       <<"n", "o", "t", "i", "c", "e", "s">>,
       <<"d", "e", "f", "i", "n", "i", "t", "i", "o", "n", "s">>,
       <<"s", "c", "o", "p", "e", " ", "o", "f", " ", "w", "o", "r", "k">>,
       <<"d", "e", "l", "i", "v", "e", "r", "a", "b", "l", "e", "s">>,
       <<"t", "e", "r", "m">>,
       <<"r", "e", "n", "e", "w", "a", "l">>,
       <<"c", "a", "n", "c", "e", "l", "l", "a", "t", "i", "o", "n">>,
       <<"j", "u", "r", "i", "s", "d", "i", "c", "t", "i", "o", "n">>,
       <<"c", "o", "m", "p", "l", "i", "a", "n", "c", "e">>,
       <<"d", "a", "t", "a", " ", "p", "r", "o", "t", "e", "c", "t", "i", "o", "n">>,
       <<"p", "r", "i", "v", "a", "c", "y">>
    >>

RECURSIVE FirstHeaderEnd(_, _, _)
\* The alternatives are tried in order: the position after the first header
\* name found at position q, or 0.
FirstHeaderEnd(low, q, h) ==
    IF h > Len(headers) THEN 0
    ELSE IF StartsWithAt(low, q, headers[h]) THEN q + Len(headers[h])
    ELSE FirstHeaderEnd(low, q, h + 1)

HeaderMatchEnd(low, p) ==
    IF LineStart(low, p) THEN FirstHeaderEnd(low, SpacesEnd(low, p), 1) ELSE 0

RECURSIVE HeaderMatches(_, _, _, _, _)
\* The starts of list(re.finditer(combined_pattern, text, MULTILINE | IGNORECASE))
HeaderMatches(low, ls, j, from, acc) ==
    IF j > Len(ls) THEN acc
    ELSE LET p == ls[j]
             e == IF p >= from THEN HeaderMatchEnd(low, p) ELSE 0
         IN  IF e # 0 THEN HeaderMatches(low, ls, j + 1, e, Append(acc, p))
             ELSE HeaderMatches(low, ls, j + 1, from, acc)

HeaderStarts(s) == HeaderMatches(Lower(s), LineStarts(s), 1, 1, <<>>)

detect_header_based_clauses(s) ==
    LET starts == HeaderStarts(s)
    IN  IF Len(starts) >= 2 THEN SplitAtMatches(s, starts) ELSE <<>>

(***************************************************************************)
(* detect_paragraph_based_clauses                                          *)
(***************************************************************************)

\* "Minimum paragraph length for legal clauses"
MinParagraphLen == 100

\* re.split(r'\n\s*\n', text): the pieces between the matches.
SplitParaBreaks(s) ==
    LET m == ParaBreakMatches(s)
    IN  [j \in 1..(Len(m) + 1) |->
            Slice(s, IF j = 1 THEN 1 ELSE m[j - 1][2] + 1,
                     IF j <= Len(m) THEN m[j][1] ELSE Len(s) + 1)]

detect_paragraph_based_clauses(s) ==
    LET paragraphs == SplitParaBreaks(s)
    IN  SelectSeq([i \in 1..Len(paragraphs) |-> Strip(paragraphs[i])],
                  LAMBDA p : Len(p) > MinParagraphLen)

(***************************************************************************)
(* detect_clauses                                                          *)
(***************************************************************************)

\* "Minimum clause length"
MinClauseLen == 50

\* len(numbered_clauses) > MinNumbered
MinNumbered == 2

\* len(header_clauses) > MinHeaders
MinHeaders == 1

\* `not text or not text.strip()`
IsBlank(s) == Strip(s) = <<>>

\* NumberedChoice with the threshold of the inner loop, two sections.
NumberedChoiceAtLeastTwo(cleaned) ==
    LET numbered_clauses == detect_numbered_clauses(cleaned)
    IN  IF Len(numbered_clauses) >= 2 THEN numbered_clauses ELSE <<>>

\* Method 1: the numbered clauses, taken when there are more than MinNumbered.
NumberedChoice(cleaned) ==
    LET numbered_clauses == detect_numbered_clauses(cleaned)
    IN  IF Len(numbered_clauses) > MinNumbered THEN numbered_clauses ELSE <<>>

\* Method 2: the header clauses, taken when there are more than MinHeaders.
HeaderChoice(cleaned) ==
    LET header_clauses == detect_header_based_clauses(cleaned)
    IN  IF Len(header_clauses) > MinHeaders THEN header_clauses ELSE <<>>

\* The cascade of the three methods.
ChooseClauses(cleaned) ==
    LET n == NumberedChoice(cleaned)
    IN  IF n # <<>> THEN n
        ELSE LET h == HeaderChoice(cleaned)
             IN  IF h # <<>> THEN h ELSE detect_paragraph_based_clauses(cleaned)

\* FilterShort without the length test.
FilterShortKeepAll(found_clauses) == [i \in 1..Len(found_clauses) |-> Strip(found_clauses[i])]

\* "Filter out very short clauses": the stripped clauses longer than
\* MinClauseLen.
FilterShort(found_clauses) ==
    SelectSeq([i \in 1..Len(found_clauses) |-> Strip(found_clauses[i])],
              LAMBDA c : Len(c) > MinClauseLen)

\* OrWholeText without the whole-text fallback.
OrWholeTextNoFallback(filtered_clauses, cleaned) == filtered_clauses

\* `filtered_clauses if filtered_clauses else [cleaned_text]`
OrWholeText(filtered_clauses, cleaned) ==
    IF filtered_clauses # <<>> THEN filtered_clauses ELSE <<cleaned>>

detect_clauses(s) ==
    IF IsBlank(s) THEN <<>>
    ELSE LET cleaned == clean_text_for_clause_detection(s)
         IN  OrWholeText(FilterShort(ChooseClauses(cleaned)), cleaned)

(***************************************************************************)
(* detect_keyword_based_risks                                              *)
(***************************************************************************)

\* The catalog of risk categories, in the order of the dict literal (a Python
\* dict iterates in insertion order).
risk_patterns ==
    <<
      [name |-> "auto_renewal",
       keywords |-> <<
                       <<"a", "u", "t", "o", "-", "r", "e", "n", "e", "w">>,
                       <<"a", "u", "t", "o", "m", "a", "t", "i", "c", "a", "l", "l", "y", " ", "r", "e", "n", "e", "w">>,
                       <<"a", "u", "t", "o", "m", "a", "t", "i", "c", " ", "r", "e", "n", "e", "w", "a", "l">>,
                       <<"e", "v", "e", "r", "g", "r", "e", "e", "n">> >>,
       description |->
         <<"A", "u", "t", "o", "m", "a", "t", "i", "c", " ", "r", "e", "n", "e", "w",
           "a", "l", " ", "c", "l", "a", "u", "s", "e", " ", "-", " ", "m", "a", "y",
           " ", "l", "o", "c", "k", " ", "y", "o", "u", " ", "i", "n", "t", "o", " ",
           "o", "n", "g", "o", "i", "n", "g", " ", "c", "o", "m", "m", "i", "t", "m",
           "e", "n", "t", "s">>],
      [name |-> "exclusivity",
       keywords |-> <<
                       <<"e", "x", "c", "l", "u", "s", "i", "v", "e">>,
                       <<"s", "o", "l", "e", "l", "y">>,
                       <<"o", "n", "l", "y", " ", "w", "o", "r", "k", " ", "w", "i", "t", "h">>,
                       <<"e", "x", "c", "l", "u", "s", "i", "v", "e", "l", "y">> >>,
       description |->
         <<"E", "x", "c", "l", "u", "s", "i", "v", "i", "t", "y", " ", "c", "l", "a",
           "u", "s", "e", " ", "-", " ", "m", "a", "y", " ", "l", "i", "m", "i", "t",
           " ", "y", "o", "u", "r", " ", "b", "u", "s", "i", "n", "e", "s", "s", " ",
           "o", "p", "p", "o", "r", "t", "u", "n", "i", "t", "i", "e", "s">>],
      [name |-> "unlimited_liability",
       keywords |-> <<
                       <<"u", "n", "l", "i", "m", "i", "t", "e", "d", " ", "l", "i", "a", "b", "i", "l", "i", "t", "y">>,
                       <<"n", "o", " ", "l", "i", "m", "i", "t", " ", "t", "o", " ", "l", "i", "a", "b", "i", "l", "i", "t", "y">>,
                       <<"f", "u", "l", "l", "y", " ", "l", "i", "a", "b", "l", "e">> >>,
       description |->
         <<"U", "n", "l", "i", "m", "i", "t", "e", "d", " ", "l", "i", "a", "b", "i",
           "l", "i", "t", "y", " ", "-", " ", "y", "o", "u", " ", "c", "o", "u", "l",
           "d", " ", "b", "e", " ", "r", "e", "s", "p", "o", "n", "s", "i", "b", "l",
           "e", " ", "f", "o", "r", " ", "s", "i", "g", "n", "i", "f", "i", "c", "a",
           "n", "t", " ", "d", "a", "m", "a", "g", "e", "s">>],
      [name |-> "indemnification",
       keywords |-> <<
                       <<"i", "n", "d", "e", "m", "n", "i", "f", "y">>,
                       <<"h", "o", "l", "d", " ", "h", "a", "r", "m", "l", "e", "s", "s">>,
                       <<"d", "e", "f", "e", "n", "d", " ", "a", "n", "d", " ", "h", "o", "l", "d">> >>,
       description |->
         <<"I", "n", "d", "e", "m", "n", "i", "f", "i", "c", "a", "t", "i", "o", "n",
           " ", "c", "l", "a", "u", "s", "e", " ", "-", " ", "y", "o", "u", " ", "m",
           "a", "y", " ", "b", "e", " ", "r", "e", "q", "u", "i", "r", "e", "d", " ",
           "t", "o", " ", "c", "o", "v", "e", "r", " ", "l", "e", "g", "a", "l", " ",
           "c", "o", "s", "t", "s", " ", "a", "n", "d", " ", "d", "a", "m", "a", "g",
           "e", "s">>],
      [name |-> "broad_termination",
       keywords |-> <<
                       <<"t", "e", "r", "m", "i", "n", "a", "t", "e", " ", "a", "t", " ", "w", "i", "l", "l">>,
                       <<"t", "e", "r", "m", "i", "n", "a", "t", "e", " ", "w", "i", "t", "h", "o", "u", "t", " ", "c", "a", "u", "s", "e">>,
                       <<"i", "m", "m", "e", "d", "i", "a", "t", "e", " ", "t", "e", "r", "m", "i", "n", "a", "t", "i", "o", "n">> >>,
       description |->
         <<"B", "r", "o", "a", "d", " ", "t", "e", "r", "m", "i", "n", "a", "t", "i",
           "o", "n", " ", "r", "i", "g", "h", "t", "s", " ", "-", " ", "t", "h", "e",
           " ", "o", "t", "h", "e", "r", " ", "p", "a", "r", "t", "y", " ", "c", "a",
           "n", " ", "e", "n", "d", " ", "t", "h", "e", " ", "a", "g", "r", "e", "e",
           "m", "e", "n", "t", " ", "e", "a", "s", "i", "l", "y">>],
      [name |-> "ip_assignment",
       keywords |-> <<
                       <<"a", "s", "s", "i", "g", "n", " ", "a", "l", "l", " ", "r", "i", "g", "h", "t", "s">>,
                       <<"t", "r", "a", "n", "s", "f", "e", "r", " ", "o", "w", "n", "e", "r", "s", "h", "i", "p">>,
                       <<"w", "o", "r", "k", " ", "f", "o", "r", " ", "h", "i", "r", "e">> >>,
       description |->
         <<"I", "n", "t", "e", "l", "l", "e", "c", "t", "u", "a", "l", " ", "p", "r",
           "o", "p", "e", "r", "t", "y", " ", "a", "s", "s", "i", "g", "n", "m", "e",
           "n", "t", " ", "-", " ", "y", "o", "u", " ", "m", "a", "y", " ", "l", "o",
           "s", "e", " ", "r", "i", "g", "h", "t", "s", " ", "t", "o", " ", "y", "o",
           "u", "r", " ", "w", "o", "r", "k">>],
      [name |-> "penalty_clauses",
       keywords |-> <<
                       <<"p", "e", "n", "a", "l", "t", "y">>,
                       <<"l", "i", "q", "u", "i", "d", "a", "t", "e", "d", " ", "d", "a", "m", "a", "g", "e", "s">>,
                       <<"s", "u", "b", "s", "t", "a", "n", "t", "i", "a", "l", " ", "d", "a", "m", "a", "g", "e", "s">> >>,
       description |->
         <<"P", "e", "n", "a", "l", "t", "y", " ", "c", "l", "a", "u", "s", "e", " ",
           "-", " ", "y", "o", "u", " ", "m", "a", "y", " ", "f", "a", "c", "e", " ",
           "f", "i", "n", "a", "n", "c", "i", "a", "l", " ", "p", "e", "n", "a", "l",
           "t", "i", "e", "s", " ", "f", "o", "r", " ", "b", "r", "e", "a", "c", "h">>],
      [name |-> "governing_law",
       keywords |-> <<
                       <<"g", "o", "v", "e", "r", "n", "e", "d", " ", "b", "y", " ", "l", "a", "w", "s", " ", "o", "f">>,
                       <<"j", "u", "r", "i", "s", "d", "i", "c", "t", "i", "o", "n", " ", "o", "f">>,
                       <<"c", "o", "u", "r", "t", "s", " ", "o", "f">> >>,
       description |->
         <<"J", "u", "r", "i", "s", "d", "i", "c", "t", "i", "o", "n", " ", "c", "l",
           "a", "u", "s", "e", " ", "-", " ", "l", "e", "g", "a", "l", " ", "d", "i",
           "s", "p", "u", "t", "e", "s", " ", "m", "a", "y", " ", "n", "e", "e", "d",
           " ", "t", "o", " ", "b", "e", " ", "r", "e", "s", "o", "l", "v", "e", "d",
           " ", "i", "n", " ", "u", "n", "f", "a", "v", "o", "r", "a", "b", "l", "e",
           " ", "l", "o", "c", "a", "t", "i", "o", "n">>],
      [name |-> "modification_restrictions",
       keywords |-> <<
                       <<"c", "a", "n", "n", "o", "t", " ", "b", "e", " ", "m", "o", "d", "i", "f", "i", "e", "d">>,
                       <<"n", "o", " ", "m", "o", "d", "i", "f", "i", "c", "a", "t", "i", "o", "n", "s">>,
                       <<"w", "r", "i", "t", "t", "e", "n", " ", "c", "o", "n", "s", "e", "n", "t", " ", "r", "e", "q", "u", "i", "r", "e", "d">> >>,
       description |->
         <<"M", "o", "d", "i", "f", "i", "c", "a", "t", "i", "o", "n", " ", "r", "e",
           "s", "t", "r", "i", "c", "t", "i", "o", "n", "s", " ", "-", " ", "a", "g",
           "r", "e", "e", "m", "e", "n", "t", " ", "m", "a", "y", " ", "b", "e", " ",
           "d", "i", "f", "f", "i", "c", "u", "l", "t", " ", "t", "o", " ", "c", "h",
           "a", "n", "g", "e", " ", "l", "a", "t", "e", "r">>],
      [name |-> "confidentiality_overreach",
       keywords |-> <<
                       <<"p", "e", "r", "p", "e", "t", "u", "a", "l", " ", "c", "o", "n", "f", "i", "d", "e", "n", "t", "i", "a", "l", "i", "t", "y">>,
                       <<"p", "e", "r", "m", "a", "n", "e", "n", "t", " ", "n", "o", "n", "-", "d", "i", "s", "c", "l", "o", "s", "u", "r", "e">>,
                       <<"i", "n", "d", "e", "f", "i", "n", "i", "t", "e", " ", "c", "o", "n", "f", "i", "d", "e", "n", "t", "i", "a", "l", "i", "t", "y">> >>,
       description |->
         <<"E", "x", "c", "e", "s", "s", "i", "v", "e", " ", "c", "o", "n", "f", "i",
           "d", "e", "n", "t", "i", "a", "l", "i", "t", "y", " ", "t", "e", "r", "m",
           "s", " ", "-", " ", "m", "a", "y", " ", "r", "e", "s", "t", "r", "i", "c",
           "t", " ", "y", "o", "u", "r", " ", "b", "u", "s", "i", "n", "e", "s", "s",
           " ", "a", "c", "t", "i", "v", "i", "t", "i", "e", "s", " ", "i", "n", "d",
           "e", "f", "i", "n", "i", "t", "e", "l", "y">>]
    >>

\* any(keyword in clause_lower for keyword in risk_data['keywords'])
AnyKeywordIn(low, keywords) == \E k \in 1..Len(keywords) : Contains(low, keywords[k])

RECURSIVE DetectedRisks(_, _, _)
\* The loop over risk_patterns.items(), from the k-th category on: the
\* description of each category with a keyword in the text is appended.
DetectedRisks(low, k, detected_risks) ==
    IF k > Len(risk_patterns) THEN detected_risks
    ELSE DetectedRisks(low, k + 1,
             IF AnyKeywordIn(low, risk_patterns[k].keywords)
             THEN Append(detected_risks, risk_patterns[k].description)
             ELSE detected_risks)

RECURSIVE JoinFrom(_, _, _)
\* sep.join(strings), from the i-th string on.
JoinFrom(strings, sep, i) ==
    IF i > Len(strings) THEN <<>>
    ELSE IF i = Len(strings) THEN strings[i]
    ELSE strings[i] \o sep \o JoinFrom(strings, sep, i + 1)

Join(strings, sep) == JoinFrom(strings, sep, 1)

\* detect_keyword_based_risks that searches the text as written, not lower-cased.
detect_keyword_based_risks_no_lower(clause) ==
    LET detected_risks == DetectedRisks(clause, 1, <<>>)
    IN  IF detected_risks # <<>> THEN Join(detected_risks, <<";", " ">>) ELSE <<>>

detect_keyword_based_risks(clause) ==
    LET clause_lower == Lower(clause)
        detected_risks == DetectedRisks(clause_lower, 1, <<>>)
    IN  IF detected_risks # <<>> THEN Join(detected_risks, <<";", " ">>) ELSE <<>>

(***************************************************************************)
(* Python values                                                           *)
(*                                                                         *)
(* A scalar is a record [t, s, n, b]: t is its type ("str", "num", "bool"  *)
(* or "null"), s the characters of a string, n a number in hundredths      *)
(* (0.85 is 85), b a boolean; the fields its type does not use are empty.   *)
(* A dict is a function from its keys (strings) to scalars.                *)
(***************************************************************************)

Str(chars) == [t |-> "str", s |-> chars, n |-> 0, b |-> FALSE]

Num(hundredths) == [t |-> "num", s |-> <<>>, n |-> hundredths, b |-> FALSE]

Bool(b) == [t |-> "bool", s |-> <<>>, n |-> 0, b |-> b]

None == [t |-> "null", s |-> <<>>, n |-> 0, b |-> FALSE]

EmptyDict == [k \in {} |-> None]

\* bool(v)
Truthy(v) ==
    CASE v.t = "str"  -> v.s # <<>>
      [] v.t = "num"  -> v.n # 0
      [] v.t = "bool" -> v.b
      [] OTHER        -> FALSE

\* d.get(key, default)
Get(d, key, default) == IF key \in DOMAIN d THEN d[key] ELSE default

\* d[key] = value
Put(d, key, value) == [k \in DOMAIN d \cup {key} |-> IF k = key THEN value ELSE d[k]]

\* A decoded JSON document: a dict, a list of scalars or a scalar.
DictDoc(fields) == [kind |-> "dict", fields |-> fields, items |-> <<>>, val |-> None]

ListDoc(items) == [kind |-> "list", fields |-> EmptyDict, items |-> items, val |-> None]

ScalarDoc(v) == [kind |-> v.t, fields |-> EmptyDict, items |-> <<>>, val |-> v]

(***************************************************************************)
(* json.loads, on the JSON the responses are written in: objects and       *)
(* arrays of scalars, strings without escapes, numbers with at most two    *)
(* decimals, true, false and null, with whitespace allowed around every    *)
(* token.  Any other text is a JSONDecodeError.                            *)
(***************************************************************************)

DigitValue ==
    ("0" :> 0) @@ ("1" :> 1) @@ ("2" :> 2) @@ ("3" :> 3) @@ ("4" :> 4) @@
    ("5" :> 5) @@ ("6" :> 6) @@ ("7" :> 7) @@ ("8" :> 8) @@ ("9" :> 9)

RECURSIVE DecimalValue(_, _, _)
\* The value of the digits at positions from..to-1.
DecimalValue(s, from, to) ==
    IF to <= from THEN 0
    ELSE 10 * DecimalValue(s, from, to - 1) + DigitValue[s[to - 1]]

\* The result of parsing one value: ok, the scalar, the position after it.
Parsed(v, next) == [ok |-> TRUE, v |-> v, next |-> next]

NotParsed == [ok |-> FALSE, v |-> None, next |-> 0]

RECURSIVE QuoteEnd(_, _)
\* The position of the first double quote at or after position i, or 0.
QuoteEnd(s, i) ==
    IF i > Len(s) THEN 0 ELSE IF s[i] = "QT" THEN i ELSE QuoteEnd(s, i + 1)

\* A string at position i.
ParseString(s, i) ==
    LET close == QuoteEnd(s, i + 1)
    IN  IF At(s, i) = "QT" /\ close # 0
              /\ \A k \in (i + 1)..(close - 1) : s[k] \notin {"BS", "\n", "\r", "\t"}
        THEN Parsed(Str(Slice(s, i + 1, close)), close + 1)
        ELSE NotParsed

\* The number with the sign neg, the integer digits at a..b-1 and, with dot,
\* the fraction digits at b+1..c-1, kept in hundredths.
NumberParsed(s, neg, a, b, dot, c) ==
    IF b > a /\ (b - a = 1 \/ s[a] # "0") /\ (dot => (c > b + 1 /\ c - (b + 1) <= 2))
       /\ At(s, c) \notin {"e", "E"}
    THEN Parsed(Num((IF neg THEN 0 - 1 ELSE 1)
                    * (100 * DecimalValue(s, a, b)
                       + (IF ~dot THEN 0
                          ELSE IF c - (b + 1) = 1 THEN 10 * DecimalValue(s, b + 1, c)
                          ELSE DecimalValue(s, b + 1, c)))),
                c)
    ELSE NotParsed

\* A number at position i: -?digits(.digits)?
ParseNumber(s, i) ==
    LET a == IF At(s, i) = "-" THEN i + 1 ELSE i
        b == DigitsEnd(s, a)
    IN  NumberParsed(s, At(s, i) = "-", a, b, At(s, b) = ".",
                     IF At(s, b) = "." THEN DigitsEnd(s, b + 1) ELSE b)

true == <<"t", "r", "u", "e">>

false == <<"f", "a", "l", "s", "e">>

null == <<"n", "u", "l", "l">>

ParseScalar(s, i) ==
    CASE At(s, i) = "QT"            -> ParseString(s, i)
      [] StartsWithAt(s, i, true)   -> Parsed(Bool(TRUE), i + 4)
      [] StartsWithAt(s, i, false)  -> Parsed(Bool(FALSE), i + 5)
      [] StartsWithAt(s, i, null)   -> Parsed(None, i + 4)
      [] OTHER                      -> ParseNumber(s, i)

\* The result of parsing a document: ok, the document, the position after it.
ParsedDoc(doc, next) == [ok |-> TRUE, doc |-> doc, next |-> next]

NotParsedDoc == [ok |-> FALSE, doc |-> ScalarDoc(None), next |-> 0]

RECURSIVE KeyName(_)
\* The key of a dict entry: the string of the characters of a JSON string.
KeyName(chars) == IF chars = <<>> THEN "" ELSE Head(chars) \o KeyName(Tail(chars))

RECURSIVE ParseMembers(_, _, _)
\* The members of an object after the key `key`, the colon at `colon` and the
\* value `value`, added to `fields`; a key that comes twice keeps its last
\* value.
MemberParsed(s, fields, key, colon, value) ==
    LET after == SpacesEnd(s, value.next)
        more  == Put(fields, KeyName(key.v.s), value.v)
    IN  IF ~key.ok \/ At(s, colon) # ":" \/ ~value.ok THEN NotParsedDoc
        ELSE IF At(s, after) = "}" THEN ParsedDoc(DictDoc(more), after + 1)
        ELSE IF At(s, after) = "," THEN ParseMembers(s, SpacesEnd(s, after + 1), more)
        ELSE NotParsedDoc

\* The members of an object from position i (at a key) on, added to `fields`.
ParseMembers(s, i, fields) ==
    LET key   == ParseString(s, i)
        colon == SpacesEnd(s, key.next)
    IN  MemberParsed(s, fields, key, colon, ParseScalar(s, SpacesEnd(s, colon + 1)))

RECURSIVE ParseItems(_, _, _)
\* The items of an array after the item `value`, added to `items`.
ItemParsed(s, items, value) ==
    LET after == SpacesEnd(s, value.next)
        more  == Append(items, value.v)
    IN  IF ~value.ok THEN NotParsedDoc
        ELSE IF At(s, after) = "]" THEN ParsedDoc(ListDoc(more), after + 1)
        ELSE IF At(s, after) = "," THEN ParseItems(s, SpacesEnd(s, after + 1), more)
        ELSE NotParsedDoc

\* The items of an array from position i (at an item) on, added to `items`.
ParseItems(s, i, items) == ItemParsed(s, items, ParseScalar(s, i))

\* A document that is one scalar.
ScalarParsed(v) == IF v.ok THEN ParsedDoc(ScalarDoc(v.v), v.next) ELSE NotParsedDoc

ParseDocument(s, i) ==
    CASE At(s, i) = "{" ->
           IF At(s, SpacesEnd(s, i + 1)) = "}"
           THEN ParsedDoc(DictDoc(EmptyDict), SpacesEnd(s, i + 1) + 1)
           ELSE ParseMembers(s, SpacesEnd(s, i + 1), EmptyDict)
      [] At(s, i) = "[" ->
           IF At(s, SpacesEnd(s, i + 1)) = "]"
           THEN ParsedDoc(ListDoc(<<>>), SpacesEnd(s, i + 1) + 1)
           ELSE ParseItems(s, SpacesEnd(s, i + 1), <<>>)
      [] OTHER -> ScalarParsed(ParseScalar(s, i))

\* The document r parsed from the start of s, when nothing but whitespace
\* follows it.
WholeDocument(s, r) ==
    IF r.ok /\ SpacesEnd(s, r.next) = Len(s) + 1 THEN r ELSE NotParsedDoc

\* json.loads(s): the document, when the whole text is one document; ok is
\* FALSE for a JSONDecodeError.
JsonLoads(s) == WholeDocument(s, ParseDocument(s, SpacesEnd(s, 1)))

(***************************************************************************)
(* parse_non_json_response                                                 *)
(***************************************************************************)

\* The result of a call: the returned dict, or the exception raised.
Returns(d) == [raised |-> FALSE, exc |-> "", value |-> d]

Raises(exc) == [raised |-> TRUE, exc |-> exc, value |-> EmptyDict]

RECURSIVE LineEnd(_, _)
\* The first position >= i that holds a newline, or the end of the text (the
\* greedy [^\n]+).
LineEnd(s, i) == IF i <= Len(s) /\ s[i] # "\n" THEN LineEnd(s, i + 1) ELSE i

RECURSIVE PlainEnd(_, _)
\* The first position >= i that holds a newline or a colon, or the end of
\* the text (the greedy [^\n:]+).
PlainEnd(s, i) == IF i <= Len(s) /\ s[i] \notin {"\n", ":"} THEN PlainEnd(s, i + 1) ELSE i

RECURSIVE LastNonNewline(_, _, _)
\* The last position in lo..hi that holds no newline, or 0.
LastNonNewline(s, lo, hi) ==
    IF hi < lo THEN 0 ELSE IF s[hi] # "\n" THEN hi ELSE LastNonNewline(s, lo, hi - 1)

\* \s*([^\n]+ at position a: where the group starts, or 0.  The greedy \s*
\* takes the whole whitespace run; when the text ends there it gives back
\* characters until one that is no newline can start the group.
GroupStart(s, a) ==
    LET q == SpacesEnd(s, a)
    IN  IF q <= Len(s) THEN q ELSE LastNonNewline(s, a, Len(s))

RECURSIVE MoreLinesEnd(_, _)
\* (?:\n[^\n:]+)* from position i on: the position after the last repetition.
MoreLinesEnd(s, i) ==
    IF At(s, i) = "\n" /\ PlainEnd(s, i + 1) > i + 1
    THEN MoreLinesEnd(s, PlainEnd(s, i + 1))
    ELSE i

RECURSIVE FirstLabel(_, _, _)
\* The alternatives of a label group are tried in order at position p of the
\* lower-cased text: the position after the first that matches, or 0.
FirstLabel(low, p, labels) ==
    IF labels = <<>> THEN 0
    ELSE IF StartsWithAt(low, p, Head(labels)) THEN p + Len(Head(labels))
    ELSE FirstLabel(low, p, Tail(labels))

\* re.search of (?:labels)\s*([^\n]+...) with re.IGNORECASE: the first and
\* the last position of the group of the leftmost match, or <<0, 0>>.  `multi`
\* adds the (?:\n[^\n:]+)* of the summary pattern.
SearchLabel(s, labels, multi) ==
    LET low     == Lower(s)
        Group(p) == LET a == FirstLabel(low, p, labels)
                    IN  IF a = 0 THEN 0 ELSE GroupStart(s, a)
        matches == {p \in 1..Len(s) : Group(p) # 0}
    IN  IF matches = {} THEN <<0, 0>>
        ELSE LET p == CHOOSE m \in matches : \A o \in matches : m <= o
                 g == Group(p)
             IN  <<g, (IF multi THEN MoreLinesEnd(s, LineEnd(s, g)) ELSE LineEnd(s, g)) - 1>>

\* (?:clause type|type):
type_labels ==
    <<<<"c", "l", "a", "u", "s", "e", " ", "t", "y", "p", "e", ":">>,
      <<"t", "y", "p", "e", ":">>>>

\* (?:summary|explanation):
summary_labels ==
    <<<<"s", "u", "m", "m", "a", "r", "y", ":">>,
      <<"e", "x", "p", "l", "a", "n", "a", "t", "i", "o", "n", ":">>>>

risk_keywords ==
    <<<<"r", "i", "s", "k">>,
      <<"d", "a", "n", "g", "e", "r">>,
      <<"c", "o", "n", "c", "e", "r", "n">>,
      <<"w", "a", "r", "n", "i", "n", "g">>,
      <<"c", "a", "u", "t", "i", "o", "n">>,
      <<"p", "r", "o", "b", "l", "e", "m", "a", "t", "i", "c">>>>

Unknown == <<"U", "n", "k", "n", "o", "w", "n">>

CouldNotParse == 
    <<"C", "o", "u", "l", "d", " ", "n", "o", "t", " ", "p", "a", "r", "s", "e", " ",
      "A", "I", " ", "r", "e", "s", "p", "o", "n", "s", "e", " ", "p", "r", "o", "p",
      "e", "r", "l", "y">>

RisksMentioned == 
    <<"P", "o", "t", "e", "n", "t", "i", "a", "l", " ", "r", "i", "s", "k", "s", " ",
      "m", "e", "n", "t", "i", "o", "n", "e", "d", " ", "i", "n", " ", "a", "n", "a",
      "l", "y", "s", "i", "s">>

\* The risk check on the text as it is, not lower-cased.
MentionsRiskCaseSensitive(raw) ==
    \E k \in 1..Len(risk_keywords) : Contains(raw, risk_keywords[k])

\* any(keyword in response_text.lower() for keyword in risk_keywords)
MentionsRisk(raw) ==
    \E k \in 1..Len(risk_keywords) : Contains(Lower(raw), risk_keywords[k])

parse_non_json_response(raw) ==
    LET type_match    == SearchLabel(raw, type_labels, FALSE)
        summary_match == SearchLabel(raw, summary_labels, TRUE)
        risky         == MentionsRisk(raw)
    IN  [clause_type |->
             IF type_match[1] # 0
             THEN Str(Strip(SubSeq(raw, type_match[1], type_match[2])))
             ELSE Str(Unknown),
         summary |->
             IF summary_match[1] # 0
             THEN Str(Strip(SubSeq(raw, summary_match[1], summary_match[2])))
             ELSE Str(CouldNotParse),
         risk_flag |-> Bool(risky),
         risk_reason |-> IF risky THEN Str(RisksMentioned) ELSE Str(<<>>),
         confidence |-> Num(50)]

(***************************************************************************)
(* get_default_value and parse_gemini_response                             *)
(***************************************************************************)

NoSummary == 
    <<"N", "o", " ", "s", "u", "m", "m", "a", "r", "y", " ", "a", "v", "a", "i", "l",
      "a", "b", "l", "e">>

NoReason == 
    <<"P", "o", "t", "e", "n", "t", "i", "a", "l", " ", "r", "i", "s", "k", " ", "d",
      "e", "t", "e", "c", "t", "e", "d", " ", "b", "u", "t", " ", "n", "o", " ", "s",
      "p", "e", "c", "i", "f", "i", "c", " ", "r", "e", "a", "s", "o", "n", " ", "p",
      "r", "o", "v", "i", "d", "e", "d">>

defaults ==
    [clause_type |-> Str(Unknown),
     summary |-> Str(NoSummary),
     risk_flag |-> Bool(FALSE),
     risk_reason |-> Str(<<>>),
     confidence |-> Num(50)]

get_default_value(field) == Get(defaults, field, Str(<<>>))

required_fields == <<"clause_type", "summary", "risk_flag">>

\* The characters of a field name, as Python compares it with the strings of
\* a list or searches it in a string.
FieldChars ==
    [clause_type |-> <<"c", "l", "a", "u", "s", "e", "_", "t", "y", "p", "e">>,
     summary |-> <<"s", "u", "m", "m", "a", "r", "y">>,
     risk_flag |-> <<"r", "i", "s", "k", "_", "f", "l", "a", "g">>]

\* ```json
FenceOpen == <<"BT", "BT", "BT", "j", "s", "o", "n">>

\* ```
FenceClose == <<"BT", "BT", "BT">>

\* The response without its markdown fence: strip, cut a leading ```json, cut
\* a trailing ```, strip.
Unfence(raw) ==
    LET stripped == Strip(raw)
        opened   == IF StartsWithAt(stripped, 1, FenceOpen)
                    THEN Slice(stripped, Len(FenceOpen) + 1, Len(stripped) + 1)
                    ELSE stripped
        closed   == IF EndsWith(opened, FenceClose)
                    THEN Slice(opened, 1, Len(opened) - Len(FenceClose) + 1)
                    ELSE opened
    IN  Strip(closed)

RECURSIVE BackfillRequired(_, _)
\* The loop over required_fields, from the i-th on: a field the dict lacks
\* gets its default value.
BackfillRequired(analysis, i) ==
    IF i > Len(required_fields) THEN analysis
    ELSE BackfillRequired(
             IF required_fields[i] \notin DOMAIN analysis
             THEN Put(analysis, required_fields[i], get_default_value(required_fields[i]))
             ELSE analysis,
             i + 1)

\* "Ensure risk_reason is present if risk_flag is True"
EnsureRiskReason(analysis) ==
    IF Truthy(Get(analysis, "risk_flag", Bool(FALSE)))
          /\ ~Truthy(Get(analysis, "risk_reason", None))
    THEN Put(analysis, "risk_reason", Str(NoReason))
    ELSE analysis

\* DefaultConfidence with 0.5 for a missing confidence.
DefaultConfidenceHalf(analysis) ==
    IF "confidence" \notin DOMAIN analysis THEN Put(analysis, "confidence", Num(50))
    ELSE analysis

\* "Set default confidence if not provided"
DefaultConfidence(analysis) ==
    IF "confidence" \notin DOMAIN analysis THEN Put(analysis, "confidence", Num(70))
    ELSE analysis

\* The statements after json.loads when it returns a dict.
ValidateDict(analysis) ==
    Returns(DefaultConfidence(EnsureRiskReason(BackfillRequired(analysis, 1))))

\* The statements after json.loads when it returns a list or a string: the
\* first required field that is not `in` it is assigned to it, a TypeError;
\* with all of them in it, analysis.get is an AttributeError.
ValidateSequence(doc) ==
    LET Has(field) ==
            IF doc.kind = "list"
            THEN \E k \in 1..Len(doc.items) : doc.items[k] = Str(FieldChars[field])
            ELSE Contains(doc.val.s, FieldChars[field])
    IN  IF \E i \in 1..Len(required_fields) : ~Has(required_fields[i])
        THEN Raises("TypeError")
        ELSE Raises("AttributeError")

\* The statements after json.loads, by the type of what it returned; for a
\* number, a boolean or None `field not in analysis` is a TypeError.
Validate(doc) ==
    CASE doc.kind = "dict"          -> ValidateDict(doc.fields)
      [] doc.kind \in {"list", "str"} -> ValidateSequence(doc)
      [] OTHER                      -> Raises("TypeError")

\* The try statement around json.loads: a JSONDecodeError gives the result
\* of parse_non_json_response, another exception is not caught.
TryLoaded(raw, loaded) ==
    IF loaded.ok THEN Validate(loaded.doc)
    ELSE Returns(parse_non_json_response(raw))

parse_gemini_response(raw) == TryLoaded(raw, JsonLoads(Unfence(raw)))

(***************************************************************************)
(* get_gemini_client, analyze_single_clause, analyze_clauses_with_gemini   *)
(***************************************************************************)

\* What the generation service does with one request: it raises ("raise"),
\* gives a response without text ("none"), or gives a response with the
\* text `text` ("text"), which may be ''.
ServiceRaises == [kind |-> "raise", text |-> <<>>]

ServiceNone == [kind |-> "none", text |-> <<>>]

ServiceAnswers(response_chars) == [kind |-> "text", text |-> response_chars]

\* No request is made: the client could not be constructed.
NoRequest == [kind |-> "no_client", text |-> <<>>]

\* `not response.text`
NoResponseText(service) == service.kind = "none" \/ service.text = <<>>

\* get_gemini_client: a client when GEMINI_API_KEY is set, else a ValueError.
get_gemini_client(key_set) == IF key_set THEN Returns(EmptyDict) ELSE Raises("ValueError")

\* `if client is None`: analyze_single_clause calls get_gemini_client.
AttemptsClient(client_set) == ~client_set

\* A client is constructed whatever the global client is.
ConstructsClientEveryTime(client_set, key_set) == ~get_gemini_client(key_set).raised

\* analyze_single_clause constructs a client: the global client is None and
\* get_gemini_client returns.
ConstructsClient(client_set, key_set) ==
    AttemptsClient(client_set) /\ ~get_gemini_client(key_set).raised

\* The global client after lines 74-75: it is set when it was, or when
\* get_gemini_client returned one.
ClientAfter(client_set, key_set) == client_set \/ ConstructsClient(client_set, key_set)

\* generate_content is called twice for the clause.
ServiceCallsTwice(calls, i, has_client) ==
    IF has_client THEN calls \o <<i, i>> ELSE calls

\* The calls of generate_content after the analysis of clause i: one more,
\* for clause i, when there is a client.
ServiceCalls(calls, i, has_client) ==
    IF has_client THEN Append(calls, i) ELSE calls

\* "Add additional risk detection based on keywords", overriding also a
\* risk the model has flagged.
MergeKeywordRisksAlways(parsed, additional_risks) ==
    IF additional_risks # <<>>
    THEN Put(Put(parsed, "risk_flag", Bool(TRUE)), "risk_reason", Str(additional_risks))
    ELSE parsed

\* "Add additional risk detection based on keywords"
MergeKeywordRisks(parsed, additional_risks) ==
    IF additional_risks # <<>> /\ ~Truthy(Get(parsed, "risk_flag", Bool(FALSE)))
    THEN Put(Put(parsed, "risk_flag", Bool(TRUE)), "risk_reason", Str(additional_risks))
    ELSE parsed

\* Lines 99-105 of analyze_single_clause, after parse_gemini_response
\* returned or raised.
WithKeywordRisks(parsed_call, additional_risks) ==
    IF parsed_call.raised THEN parsed_call
    ELSE Returns(MergeKeywordRisks(parsed_call.value, additional_risks))

\* analyze_single_clause, given whether a client is at hand (the global one
\* or a new one) and what the service does with the request.
analyze_single_clause(clause, has_client, service) ==
    IF ~has_client THEN Raises("ValueError")
    ELSE IF service.kind = "raise" THEN Raises("ServiceError")
    ELSE IF NoResponseText(service) THEN Raises("ValueError")
    ELSE WithKeywordRisks(parse_gemini_response(service.text),
                          detect_keyword_based_risks(clause))

AnalysisFailed ==
    <<"A", "n", "a", "l", "y", "s", "i", "s", " ", "f", "a", "i", "l", "e", "d", " ",
      "-", " ", "m", "a", "n", "u", "a", "l", " ", "r", "e", "v", "i", "e", "w", " ",
      "r", "e", "q", "u", "i", "r", "e", "d">>

CouldNotAnalyze ==
    <<"C", "o", "u", "l", "d", " ", "n", "o", "t", " ", "a", "n", "a", "l", "y", "z",
      "e", " ", "w", "i", "t", "h", " ", "A", "I", " ", "-", " ", "r", "e", "q", "u",
      "i", "r", "e", "s", " ", "m", "a", "n", "u", "a", "l", " ", "r", "e", "v", "i",
      "e", "w">>

\* The record of a clause whose analysis returned.
ClauseData(clause, parsed) ==
    [original_text |-> Str(clause),
     clause_type |-> Get(parsed, "clause_type", Str(Unknown)),
     summary |-> Get(parsed, "summary", Str(NoSummary)),
     risk_flag |-> Get(parsed, "risk_flag", Bool(FALSE)),
     risk_reason |-> Get(parsed, "risk_reason", Str(<<>>)),
     confidence |-> Get(parsed, "confidence", Num(0))]

\* The fallback record without the risk flag.
FallbackDataNotFlagged(clause) ==
    [original_text |-> Str(clause),
     clause_type |-> Str(Unknown),
     summary |-> Str(AnalysisFailed),
     risk_flag |-> Bool(FALSE),
     risk_reason |-> Str(CouldNotAnalyze),
     confidence |-> Num(0)]

\* "Add fallback analysis for failed clauses"
FallbackData(clause) ==
    [original_text |-> Str(clause),
     clause_type |-> Str(Unknown),
     summary |-> Str(AnalysisFailed),
     risk_flag |-> Bool(TRUE),
     risk_reason |-> Str(CouldNotAnalyze),
     confidence |-> Num(0)]

\* `except Exception`: every exception of the analysis is caught.
Caught(exc) == exc \in {"ValueError", "TypeError", "AttributeError", "ServiceError"}

\* The list with the record put first.
Prepended(list, clause_data) == <<clause_data>> \o list

\* analyzed_clauses.append(clause_data)
Appended(list, clause_data) == Append(list, clause_data)

(***************************************************************************)
(* The contract texts the calls are made with                              *)
(***************************************************************************)

\* The example of the specification's testable properties.
ExampleText ==
    <<"1", ".", " ", "T", "e", "r", "m", ".", " ", "T", "h", "i", "s", " ", "a", "g",
      "r", "e", "e", "m", "e", "n", "t", " ", "l", "a", "s", "t", "s", " ", "o", "n",
      "e", " ", "y", "e", "a", "r", ".", "\n", "\n", "2", ".", " ", "T", "e", "r", "m",
      "i", "n", "a", "t", "i", "o", "n", ".", " ", "E", "i", "t", "h", "e", "r", " ",
      "p", "a", "r", "t", "y", " ", "m", "a", "y", " ", "t", "e", "r", "m", "i", "n",
      "a", "t", "e", " ", "a", "t", " ", "w", "i", "l", "l", ".">>

\* The most lines of a generated text.
MaxLines == 4

Termination == <<"T", "e", "r", "m", "i", "n", "a", "t", "i", "o", "n">>

LIABILITY == <<"L", "I", "A", "B", "I", "L", "I", "T", "Y">>

\* The kinds of line a generated text is made of.  n is the number of the
\* line in the text, used as the section number.
NumberMark(n) == <<ToString(n), ".", " ">>

LineKinds == {"numbered", "numbered_short", "header", "header_short",
              "paragraph", "body", "blank"}

Line(kind, n) ==
    CASE kind = "numbered"       -> NumberMark(n) \o Replicate("a", 60) \o <<"\n">>
      [] kind = "numbered_short" -> NumberMark(n) \o Replicate("b", 12) \o <<"\n", "\n">>
      [] kind = "header"         -> Termination \o <<" ">> \o Replicate("c", 55) \o <<"\n">>
      [] kind = "header_short"   -> <<" ">> \o LIABILITY \o <<"\r", "\n">>
      [] kind = "paragraph"      -> Replicate("d", 101) \o <<"\n", " ", "\n">>
      [] kind = "body"           -> Replicate("e", 45) \o <<" ", " ", "\n">>
      [] OTHER                   -> <<" ", "\n">>

RECURSIVE TextOf(_, _)
\* The text of a sequence of line kinds, from line n on.
TextOf(kinds, n) ==
    IF n > Len(kinds) THEN <<>> ELSE Line(kinds[n], n) \o TextOf(kinds, n + 1)

Layouts == UNION {[1..n -> LineKinds] : n \in 1..MaxLines}

Texts == {TextOf(k, 1) : k \in Layouts} \cup {ExampleText, <<>>}

(***************************************************************************)
(* The clause texts the matcher is called with                             *)
(***************************************************************************)

\* The phrases a generated clause text is made of.
Phrases ==
    <<
      <<"A", "u", "t", "o", "-", "R", "e", "n", "e", "w">>,
      <<"I", "N", "D", "E", "M", "N", "I", "F", "Y">>,
      <<"e", "x", "c", "l", "u", "s", "i", "v", "e", "l", "y">>,
      <<"t", "e", "r", "m", "i", "n", "a", "t", "e", " ", "a", "t", " ", "w", "i", "l", "l">>,
      <<"p", "e", "r", "p", "e", "t", "u", "a", "l", " ", "c", "o", "n", "f", "i", "d", "e", "n", "t", "i", "a", "l", "i", "t", "y">>,
      <<"p", "e", "n", "a", "l", "t", "y">>,
      <<"p", "a", "y", "m", "e", "n", "t">>,
      <<"e", "v", "e", "r", "g", "r", "e", "e", "n">>
    >>

\* The most phrases of a generated clause text.
MaxPhrases == 3

RECURSIVE ClauseOf(_, _)
\* The clause text of a sequence of phrase numbers: the phrases, each
\* followed by a space, from the n-th on.
ClauseOf(ps, n) ==
    IF n > Len(ps) THEN <<>> ELSE Phrases[ps[n]] \o <<" ">> \o ClauseOf(ps, n + 1)

PhraseChoices == UNION {[1..n -> 1..Len(Phrases)] : n \in 0..MaxPhrases}

RiskClauses == {ClauseOf(ps, 1) : ps \in PhraseChoices}

(***************************************************************************)
(* The responses of the generation service                                 *)
(*                                                                         *)
(* A response is described by a record [wrap, kind, choice, other] and     *)
(* written out as characters by ResponseText.  kind "object" is a JSON     *)
(* object: choice gives, for each of the five keys, the number of the      *)
(* value it has among ValueOptions, or 0 when the key is absent.  kind     *)
(* "text" is the other-th entry of OtherBodies.  wrap is what surrounds    *)
(* the body: nothing, a ```json fence, or a fence without the json label.  *)
(***************************************************************************)

Keys == <<"clause_type", "summary", "risk_flag", "risk_reason", "confidence">>

KeySet == {Keys[i] : i \in 1..Len(Keys)}

KeyChars ==
    [clause_type |-> <<"c", "l", "a", "u", "s", "e", "_", "t", "y", "p", "e">>,
     summary |-> <<"s", "u", "m", "m", "a", "r", "y">>,
     risk_flag |-> <<"r", "i", "s", "k", "_", "f", "l", "a", "g">>,
     risk_reason |-> <<"r", "i", "s", "k", "_", "r", "e", "a", "s", "o", "n">>,
     confidence |-> <<"c", "o", "n", "f", "i", "d", "e", "n", "c", "e">>]

\* The values a key of a generated object takes: the JSON text and the
\* Python value json.loads gives for it.
ValueOptions ==
    [clause_type |-> << [chars |-> <<"QT", "P", "a", "y", "m", "e", "n", "t", "QT">>, val |-> Str(<<"P", "a", "y", "m", "e", "n", "t">>)] >>,
     summary     |-> << [chars |-> <<"QT", "P", "a", "y", "s", "QT">>, val |-> Str(<<"P", "a", "y", "s">>)] >>,
     risk_flag   |-> << [chars |-> <<"t", "r", "u", "e">>, val |-> Bool(TRUE)],
                        [chars |-> <<"f", "a", "l", "s", "e">>, val |-> Bool(FALSE)],
                        [chars |-> <<"QT", "y", "e", "s", "QT">>, val |-> Str(<<"y", "e", "s">>)] >>,
     risk_reason |-> << [chars |-> <<"QT", "QT">>, val |-> Str(<<>>)],
                        [chars |-> <<"QT", "L", "a", "t", "e", " ", "f", "e", "e", "QT">>, val |-> Str(<<"L", "a", "t", "e", " ", "f", "e", "e">>)] >>,
     confidence  |-> << [chars |-> <<"0", ".", "8", "5">>, val |-> Num(85)],
                        [chars |-> <<"1", ".", "5">>, val |-> Num(150)] >>]

\* The bodies that are no JSON object: JSON documents of the other types
\* (json is TRUE) and prose.
OtherBodies ==
    <<
      [chars |-> <<"[", "1", ",", " ", "2", "]">>,
       json |-> TRUE],
      [chars |-> <<"[", "QT", "c", "l", "a", "u", "s", "e", "_", "t", "y", "p", "e", "QT", ",", " ", "QT", "s", "u", "m", "m", "a", "r", "y", "QT", ",", " ", "QT", "r", "i", "s", "k", "_", "f", "l", "a", "g", "QT",
  "]">>,
       json |-> TRUE],
      [chars |-> <<"4", "2">>,
       json |-> TRUE],
      [chars |-> <<"QT", "c", "l", "a", "u", "s", "e", "_", "t", "y", "p", "e", " ", "s", "u", "m", "m", "a", "r", "y", " ", "r", "i", "s", "k", "_", "f", "l", "a", "g", "QT">>,
       json |-> TRUE],
      [chars |-> <<"QT", "t", "e", "x", "t", "QT">>,
       json |-> TRUE],
      [chars |-> <<"t", "r", "u", "e">>,
       json |-> TRUE],
      [chars |-> <<"n", "u", "l", "l">>,
       json |-> TRUE],
      [chars |-> <<>>,
       json |-> FALSE],
      [chars |-> <<"C", "l", "a", "u", "s", "e", " ", "T", "y", "p", "e", ":", " ", "P", "a", "y", "m", "e", "n", "t", "\n", "S", "u", "m", "m", "a", "r", "y", ":", " ", "P", "a", "y", "s", " ", "m", "o", "n", "t",
  "h", "l", "y", "\n", "f", "e", "e", "s", " ", "a", "p", "p", "l", "y", "\n", "\n", "N", "o", " ", "i", "s", "s", "u", "e", "s", ".">>,
       json |-> FALSE],
      [chars |-> <<"T", "h", "i", "s", " ", "c", "l", "a", "u", "s", "e", " ", "i", "s", " ", "a", " ", "c", "o", "n", "c", "e", "r", "n", ".">>,
       json |-> FALSE],
      [chars |-> <<"T", "h", "e", " ", "t", "y", "p", "e", ":", " ", "N", "D", "A", "\n", "E", "x", "p", "l", "a", "n", "a", "t", "i", "o", "n", ":", " ", "k", "e", "e", "p", " ", "s", "e", "c", "r", "e", "t", "\n",
  "n", "o", "t", "e", ":", " ", "i", "n", "t", "e", "r", "n", "a", "l">>,
       json |-> FALSE],
      [chars |-> <<"N", "o", "t", "h", "i", "n", "g", " ", "t", "o", " ", "r", "e", "p", "o", "r", "t">>,
       json |-> FALSE],
      [chars |-> <<"s", "u", "m", "m", "a", "r", "y", ":", " ", " ">>,
       json |-> FALSE]
    >>

Wraps == {"plain", "fenced", "unlabelled"}

NoChoice == [k \in KeySet |-> 0]

ObjectChoices == {c \in [KeySet -> 0..3] : \A k \in KeySet : c[k] <= Len(ValueOptions[k])}

ObjectResponse(wrap, choice) == [wrap |-> wrap, kind |-> "object", choice |-> choice, other |-> 0]

TextResponse(wrap, other) == [wrap |-> wrap, kind |-> "text", choice |-> NoChoice, other |-> other]

Responses ==
    {ObjectResponse(w, c) : w \in Wraps, c \in ObjectChoices}
    \cup {TextResponse(w, o) : w \in Wraps, o \in 1..Len(OtherBodies)}

RECURSIVE MembersText(_, _, _)
\* The members of the object from the i-th key on, separated by ", ".
MembersText(choice, i, first) ==
    IF i > Len(Keys) THEN <<>>
    ELSE LET k == Keys[i]
         IN  IF choice[k] = 0 THEN MembersText(choice, i + 1, first)
             ELSE (IF first THEN <<>> ELSE <<",", " ">>)
                  \o <<"QT">> \o KeyChars[k] \o <<"QT", ":", " ">>
                  \o ValueOptions[k][choice[k]].chars
                  \o MembersText(choice, i + 1, FALSE)

BodyText(r) ==
    IF r.kind = "object" THEN <<"{">> \o MembersText(r.choice, 1, TRUE) \o <<"}">>
    ELSE OtherBodies[r.other].chars

ResponseText(r) ==
    CASE r.wrap = "fenced" ->
           FenceOpen \o <<"\n">> \o BodyText(r) \o <<"\n">> \o FenceClose \o <<"\n">>
      [] r.wrap = "unlabelled" ->
           FenceClose \o <<"\n">> \o BodyText(r) \o <<"\n">> \o FenceClose
      [] OTHER -> BodyText(r)

(***************************************************************************)
(* The clause lists and the service behaviours of a batch                  *)
(***************************************************************************)

\* The most clauses of a batch.
MaxClauses == 2

\* The most calls of analyze_clauses_with_gemini in one process.
MaxBatches == 2

\* The clause texts of a batch: "terminate at will" (a risk keyword) and
\* "payment" (none).
BatchClauses == {ClauseOf(<<4>>, 1), ClauseOf(<<7>>, 1)}

ClauseLists == UNION {[1..n -> BatchClauses] : n \in 0..MaxClauses}

\* The answers of the service in a batch: a flagged object with its reason,
\* the fenced object of the specification's example (risk_flag false), a
\* flagged object without reason, an object with the risk_flag "yes" and the
\* confidence 1.5, a JSON array, and prose with and without a risk word.
BatchResponses ==
    {ObjectResponse("plain", [clause_type |-> 1, summary |-> 1, risk_flag |-> 1,
                              risk_reason |-> 2, confidence |-> 1]),
     ObjectResponse("fenced", [clause_type |-> 1, summary |-> 1, risk_flag |-> 2,
                               risk_reason |-> 0, confidence |-> 0]),
     ObjectResponse("plain", [clause_type |-> 0, summary |-> 0, risk_flag |-> 1,
                              risk_reason |-> 0, confidence |-> 0]),
     ObjectResponse("plain", [clause_type |-> 1, summary |-> 1, risk_flag |-> 3,
                              risk_reason |-> 0, confidence |-> 2]),
     TextResponse("plain", 1),
     TextResponse("plain", 10),
     TextResponse("plain", 12)}

ServiceFailures == {ServiceRaises, ServiceNone, ServiceAnswers(<<>>)}

(***************************************************************************)
(* The raw texts clean_text_for_clause_detection is called with            *)
(***************************************************************************)

\* The most characters of a raw text.
MaxRaw == 5

\* A letter, the space and the two line-ending characters.
RawChars == {"a", " ", "\n", "\r"}

RawTexts == UNION {[1..n -> RawChars] : n \in 0..MaxRaw}

(***************************************************************************)
(* The prose parse_non_json_response is called with                        *)
(***************************************************************************)

\* The most lines of a prose response.
MaxProseLines == 3

\* The lines prose is made of: labelled lines, a bare label, a line with a
\* colon that is no label, plain lines, an empty line, a line of one space,
\* and lines with a risk word in upper and in lower case.
ProseLines ==
    <<
      <<"C", "l", "a", "u", "s", "e", " ", "T", "y", "p", "e", ":", " ", "N", "D", "A">>,
      <<"t", "y", "p", "e", ":">>,
      <<"S", "U", "M", "M", "A", "R", "Y", ":", " ", "P", "a", "y", "s", " ", "l", "a", "t", "e">>,
      <<"f", "e", "e", "s", ":", " ", "m", "o", "n", "t", "h", "l", "y">>,
      <<"n", "o", " ", "f", "e", "e", "s">>,
      <<>>,
      <<" ">>,
      <<"A", " ", "W", "A", "R", "N", "I", "N", "G">>,
      <<"E", "x", "p", "l", "a", "n", "a", "t", "i", "o", "n", ":", " ", " ">>,
      <<"I", "t", " ", "i", "s", " ", "p", "r", "o", "b", "l", "e", "m", "a", "t", "i", "c">>
    >>

RECURSIVE JoinLines(_)
\* The lines joined by newlines.
JoinLines(lines) ==
    IF lines = <<>> THEN <<>>
    ELSE IF Len(lines) = 1 THEN lines[1]
    ELSE lines[1] \o <<"\n">> \o JoinLines(Tail(lines))

ProseOf(choice) == JoinLines([i \in 1..Len(choice) |-> ProseLines[choice[i]]])

ProseTexts ==
    {ProseOf(choice) : choice \in UNION {[1..n -> 1..Len(ProseLines)] : n \in 1..MaxProseLines}}

(***************************************************************************)
(* The texts detect_numbered_clauses is called with                        *)
(***************************************************************************)

\* The number of lines of a text.
MaxNumberedLines == 3

\* The lines: lines that start with a marker of one of the six patterns, an
\* indented marker, an empty line and a line without a marker.
NumberedLines ==
    <<
      <<"1", ".", " ", "a">>,
      <<"2", ".", " ", "b", " ", "c">>,
      <<" ", "3", ".", "\t", "q">>,
      <<"(", "1", ")", " ", "x">>,
      <<"(", "2", ")", " ", "y">>,
      <<"A", ".", " ", "z">>,
      <<"1", ".", "1", " ", "w">>,
      <<"2", ".", "1", " ", "v">>,
      <<"A", "r", "t", "i", "c", "l", "e", " ", "1">>,
      <<"S", "e", "c", "t", "i", "o", "n", " ", " ", "2">>,
      <<>>,
      <<"i", "n", "t", "r", "o">>
    >>

NumberedTexts ==
    {JoinLines([i \in 1..Len(choice) |-> NumberedLines[choice[i]]]) :
        choice \in UNION {[1..n -> 1..Len(NumberedLines)] : n \in 1..MaxNumberedLines}}

(***************************************************************************)
(* The inputs of a request to main                                         *)
(***************************************************************************)

\* A text too short to be split.
ShortText == <<"P", "a", "y", " ", "n", "o", "w", ".">>

\* The texts that are pasted or extracted from a file: no text, whitespace
\* only, a short text, the example with whitespace around it.
MainTexts == {<<>>, <<" ", "\n">>, ShortText, <<" ">> \o ExampleText \o <<"\n">>}

\* extract_text_from_file returns the stripped text of the document.
ExtractedTexts == {Strip(t) : t \in MainTexts}

(***************************************************************************)
(* The calls.  Each specification makes the calls of one function; the    *)
(* variables of the others stay idle.                                      *)
(***************************************************************************)

\* No call of detect_clauses is under way.
SegIdle == text = <<>> /\ seg_result = <<>> /\ seg_pc = "idle"

\* No call of detect_keyword_based_risks is under way.
RiskIdle == clause_text = <<>> /\ risk_result = <<>> /\ risk_pc = "idle"

\* No call of analyze_clauses_with_gemini is under way.
BatchIdle ==
    /\ clauses = <<>>
    /\ analyzed_clauses = <<>>
    /\ client = FALSE
    /\ api_key = FALSE
    /\ requests = <<>>
    /\ last_analysis = Returns(EmptyDict)
    /\ batch_pc = "idle"
    /\ service_calls = <<>>
    /\ attempts = 0
    /\ constructed = 0
    /\ batches = 0

\* No call of clean_text_for_clause_detection is under way.
CleanIdle == raw_text = <<>> /\ cleaned_text = <<>> /\ clean_pc = "idle"

\* No call of parse_non_json_response is under way.
FallbackIdle == fallback_text = <<>> /\ fallback_result = EmptyDict /\ fallback_pc = "idle"

\* No call of detect_numbered_clauses is under way.
NumberedIdle == numbered_text = <<>> /\ numbered_result = <<>> /\ numbered_pc = "idle"

\* No request to main is under way.
MainIdle ==
    /\ uploaded_file = FALSE
    /\ contract_text = <<>>
    /\ extracted_text = <<>>
    /\ main_pc = "idle"

\* No call of parse_gemini_response is under way.
ParseIdle ==
    /\ response = TextResponse("plain", 1)
    /\ response_text = <<>>
    /\ parse_result = Returns(EmptyDict)
    /\ parse_pc = "idle"

(***************************************************************************)
(* The call of detect_clauses                                              *)
(***************************************************************************)

SegInit ==
    /\ text \in Texts
    /\ seg_result = <<>>
    /\ seg_pc = "called"
    /\ RiskIdle
    /\ ParseIdle
    /\ BatchIdle
    /\ CleanIdle
    /\ FallbackIdle
    /\ NumberedIdle
    /\ MainIdle

DetectClauses ==
    /\ seg_pc = "called"
    /\ seg_result' = detect_clauses(text)
    /\ seg_pc' = "returned"
    /\ UNCHANGED <<text, risk_vars, parse_vars, batch_vars, clean_vars, fallback_vars, numbered_vars, main_vars>>

SegNext == DetectClauses

SpecSegment == SegInit /\ [][SegNext]_vars

(***************************************************************************)
(* The call of detect_keyword_based_risks                                     *)
(***************************************************************************)

RiskInit ==
    /\ clause_text \in RiskClauses
    /\ risk_result = <<>>
    /\ risk_pc = "called"
    /\ SegIdle
    /\ ParseIdle
    /\ BatchIdle
    /\ CleanIdle
    /\ FallbackIdle
    /\ NumberedIdle
    /\ MainIdle

DetectKeywordBasedRisks ==
    /\ risk_pc = "called"
    /\ risk_result' = detect_keyword_based_risks(clause_text)
    /\ risk_pc' = "returned"
    /\ UNCHANGED <<clause_text, seg_vars, parse_vars, batch_vars, clean_vars, fallback_vars, numbered_vars, main_vars>>

RiskNext == DetectKeywordBasedRisks

SpecRisks == RiskInit /\ [][RiskNext]_vars

(***************************************************************************)
(* The call of parse_gemini_response                                       *)
(***************************************************************************)

ParseInit ==
    /\ response \in Responses
    /\ response_text = ResponseText(response)
    /\ parse_result = Returns(EmptyDict)
    /\ parse_pc = "called"
    /\ SegIdle
    /\ RiskIdle
    /\ BatchIdle
    /\ CleanIdle
    /\ FallbackIdle
    /\ NumberedIdle
    /\ MainIdle

ParseGeminiResponse ==
    /\ parse_pc = "called"
    /\ parse_result' = parse_gemini_response(response_text)
    /\ parse_pc' = "returned"
    /\ UNCHANGED <<response, response_text, seg_vars, risk_vars, batch_vars, clean_vars, fallback_vars, numbered_vars, main_vars>>

ParseNext == ParseGeminiResponse

SpecParse == ParseInit /\ [][ParseNext]_vars

(***************************************************************************)
(* The call of analyze_clauses_with_gemini: one step for each clause       *)
(***************************************************************************)

BatchInit ==
    /\ clauses \in ClauseLists
    /\ analyzed_clauses = <<>>
    /\ client = FALSE
    /\ api_key \in BOOLEAN
    /\ requests = <<>>
    /\ last_analysis = Returns(EmptyDict)
    /\ batch_pc = "loop"
    /\ service_calls = <<>>
    /\ attempts = 0
    /\ constructed = 0
    /\ batches = 1
    /\ SegIdle
    /\ RiskIdle
    /\ ParseIdle
    /\ CleanIdle
    /\ FallbackIdle
    /\ NumberedIdle
    /\ MainIdle

\* The body of the loop once analyze_single_clause has returned or raised:
\* the record of the clause, or the fallback record, is appended.
LoopBody(clause_text_i, result) ==
    /\ last_analysis' = result
    /\ IF ~result.raised
       THEN /\ analyzed_clauses' =
                   Appended(analyzed_clauses, ClauseData(clause_text_i, result.value))
            /\ batch_pc' = "loop"
       ELSE IF Caught(result.exc)
       THEN /\ analyzed_clauses' = Appended(analyzed_clauses, FallbackData(clause_text_i))
            /\ batch_pc' = "loop"
       ELSE /\ analyzed_clauses' = analyzed_clauses
            /\ batch_pc' = "raised"

\* One turn of the loop, for the next clause, with what the service does.
AnalyzeClause(service) ==
    /\ batch_pc = "loop"
    /\ Len(analyzed_clauses) < Len(clauses)
    /\ client' = ClientAfter(client, api_key)
    /\ attempts' = attempts + (IF AttemptsClient(client) THEN 1 ELSE 0)
    /\ constructed' = constructed + (IF ConstructsClient(client, api_key) THEN 1 ELSE 0)
    /\ service_calls' = ServiceCalls(service_calls, Len(analyzed_clauses) + 1,
                                     ClientAfter(client, api_key))
    /\ requests' = Append(requests, service)
    /\ LoopBody(clauses[Len(analyzed_clauses) + 1],
                analyze_single_clause(clauses[Len(analyzed_clauses) + 1],
                                      ClientAfter(client, api_key),
                                      service))
    /\ UNCHANGED <<clauses, api_key, batches, seg_vars, risk_vars, parse_vars, clean_vars, fallback_vars, numbered_vars, main_vars>>

\* The client cannot be constructed: the clause is analysed without a request.
AnalyzeClauseWithoutClient ==
    /\ ~client /\ ~api_key
    /\ AnalyzeClause(NoRequest)

\* The service fails: it raises or gives an empty or no text.
AnalyzeClauseServiceFails ==
    /\ client \/ api_key
    /\ \E service \in ServiceFailures : AnalyzeClause(service)

\* The service answers with a text.
AnalyzeClauseServiceAnswers ==
    /\ client \/ api_key
    /\ \E r \in BatchResponses : AnalyzeClause(ServiceAnswers(ResponseText(r)))

\* return analyzed_clauses
ReturnAnalyzed ==
    /\ batch_pc = "loop"
    /\ Len(analyzed_clauses) = Len(clauses)
    /\ batch_pc' = "returned"
    /\ UNCHANGED <<clauses, analyzed_clauses, client, api_key, requests, last_analysis,
                   service_calls, attempts, constructed, batches,
                   seg_vars, risk_vars, parse_vars, clean_vars, fallback_vars, numbered_vars, main_vars>>

\* analyze_clauses_with_gemini is called again in the same process: the
\* global client is as the run before left it.
AnalyzeAgain ==
    /\ batch_pc = "returned"
    /\ batches < MaxBatches
    /\ clauses' \in ClauseLists
    /\ analyzed_clauses' = <<>>
    /\ requests' = <<>>
    /\ last_analysis' = Returns(EmptyDict)
    /\ service_calls' = <<>>
    /\ attempts' = 0
    /\ batches' = batches + 1
    /\ batch_pc' = "loop"
    /\ UNCHANGED <<client, api_key, constructed, seg_vars, risk_vars, parse_vars, clean_vars, fallback_vars, numbered_vars, main_vars>>

BatchNext ==
    \/ AnalyzeClauseWithoutClient
    \/ AnalyzeClauseServiceFails
    \/ AnalyzeClauseServiceAnswers
    \/ ReturnAnalyzed
    \/ AnalyzeAgain

SpecAnalyze == BatchInit /\ [][BatchNext]_vars

(***************************************************************************)
(* The call of clean_text_for_clause_detection                             *)
(***************************************************************************)

CleanInit ==
    /\ raw_text \in RawTexts
    /\ cleaned_text = <<>>
    /\ clean_pc = "called"
    /\ SegIdle
    /\ RiskIdle
    /\ ParseIdle
    /\ BatchIdle
    /\ FallbackIdle
    /\ NumberedIdle
    /\ MainIdle

CleanText ==
    /\ clean_pc = "called"
    /\ cleaned_text' = clean_text_for_clause_detection(raw_text)
    /\ clean_pc' = "returned"
    /\ UNCHANGED <<raw_text, seg_vars, risk_vars, parse_vars, batch_vars, fallback_vars, numbered_vars, main_vars>>

CleanNext == CleanText

SpecClean == CleanInit /\ [][CleanNext]_vars

(***************************************************************************)
(* The call of parse_non_json_response                                     *)
(***************************************************************************)

FallbackInit ==
    /\ fallback_text \in ProseTexts
    /\ fallback_result = EmptyDict
    /\ fallback_pc = "called"
    /\ SegIdle
    /\ RiskIdle
    /\ ParseIdle
    /\ BatchIdle
    /\ CleanIdle
    /\ NumberedIdle
    /\ MainIdle

ParseNonJsonResponse ==
    /\ fallback_pc = "called"
    /\ fallback_result' = parse_non_json_response(fallback_text)
    /\ fallback_pc' = "returned"
    /\ UNCHANGED <<fallback_text, seg_vars, risk_vars, parse_vars, batch_vars, clean_vars, numbered_vars, main_vars>>

FallbackNext == ParseNonJsonResponse

SpecFallback == FallbackInit /\ [][FallbackNext]_vars

(***************************************************************************)
(* The call of detect_numbered_clauses                                      *)
(***************************************************************************)

NumberedInit ==
    /\ numbered_text \in NumberedTexts
    /\ numbered_result = <<>>
    /\ numbered_pc = "called"
    /\ SegIdle
    /\ RiskIdle
    /\ ParseIdle
    /\ BatchIdle
    /\ CleanIdle
    /\ FallbackIdle
    /\ MainIdle

DetectNumberedClauses ==
    /\ numbered_pc = "called"
    /\ numbered_result' = detect_numbered_clauses(numbered_text)
    /\ numbered_pc' = "returned"
    /\ UNCHANGED <<numbered_text, seg_vars, risk_vars, parse_vars, batch_vars, clean_vars, fallback_vars, main_vars>>

NumberedNext == DetectNumberedClauses

SpecNumbered == NumberedInit /\ [][NumberedNext]_vars

(***************************************************************************)
(* A request to main: the "Analyze Contract" button was clicked            *)
(***************************************************************************)

\* `not uploaded_file and not contract_text.strip()`
NoInput(uploaded, pasted) == ~uploaded /\ IsBlank(pasted)

\* NoExtractedText that lets every text pass.
NoExtractedTextNever(extracted) == FALSE

\* `not extracted_text.strip()`
NoExtractedText(extracted) == IsBlank(extracted)

MainInit ==
    /\ uploaded_file \in BOOLEAN
    /\ contract_text \in MainTexts
    /\ extracted_text = <<>>
    /\ main_pc = "clicked"
    /\ clauses = <<>>
    /\ analyzed_clauses = <<>>
    /\ client = FALSE
    /\ api_key \in BOOLEAN
    /\ requests = <<>>
    /\ last_analysis = Returns(EmptyDict)
    /\ batch_pc = "idle"
    /\ service_calls = <<>>
    /\ attempts = 0
    /\ constructed = 0
    /\ batches = 0
    /\ SegIdle
    /\ RiskIdle
    /\ ParseIdle
    /\ CleanIdle
    /\ FallbackIdle
    /\ NumberedIdle

\* Lines 67-69: without a file and without pasted text the request ends.
CheckInput ==
    /\ main_pc = "clicked"
    /\ main_pc' = IF NoInput(uploaded_file, contract_text) THEN "ended" ELSE "extract"
    /\ UNCHANGED <<uploaded_file, contract_text, extracted_text, seg_vars, risk_vars,
                   parse_vars, batch_vars, clean_vars, fallback_vars, numbered_vars>>

\* Lines 75-87: the text is extracted from the uploaded file.
ExtractText ==
    /\ main_pc = "extract"
    /\ uploaded_file
    /\ extracted_text' \in ExtractedTexts
    /\ main_pc' = "extracted"
    /\ UNCHANGED <<uploaded_file, contract_text, seg_vars, risk_vars,
                   parse_vars, batch_vars, clean_vars, fallback_vars, numbered_vars>>

\* Lines 75-87 and 188-189: extract_text_from_file raises; the exception is
\* caught at the end of main and the request ends.
ExtractionFails ==
    /\ main_pc = "extract"
    /\ uploaded_file
    /\ main_pc' = "failed"
    /\ UNCHANGED <<uploaded_file, contract_text, extracted_text, seg_vars, risk_vars,
                   parse_vars, batch_vars, clean_vars, fallback_vars, numbered_vars>>

\* Lines 88-90: without a file the pasted text is used, stripped.
UsePastedText ==
    /\ main_pc = "extract"
    /\ ~uploaded_file
    /\ extracted_text' = Strip(contract_text)
    /\ main_pc' = "extracted"
    /\ UNCHANGED <<uploaded_file, contract_text, seg_vars, risk_vars,
                   parse_vars, batch_vars, clean_vars, fallback_vars, numbered_vars>>

\* Lines 92-99: without text the request ends; else detect_clauses is called.
DetectInMain ==
    /\ main_pc = "extracted"
    /\ IF NoExtractedText(extracted_text)
       THEN /\ main_pc' = "ended"
            /\ UNCHANGED seg_vars
       ELSE /\ main_pc' = "detected"
            /\ text' = extracted_text
            /\ seg_result' = detect_clauses(extracted_text)
            /\ seg_pc' = "returned"
    /\ UNCHANGED <<uploaded_file, contract_text, extracted_text, risk_vars,
                   parse_vars, batch_vars, clean_vars, fallback_vars, numbered_vars>>

\* Lines 101-107: without clauses the request ends; else
\* analyze_clauses_with_gemini is called with the clauses.
AnalyzeInMain ==
    /\ main_pc = "detected"
    /\ IF seg_result = <<>>
       THEN /\ main_pc' = "ended"
            /\ UNCHANGED <<clauses, batch_pc, batches>>
       ELSE /\ main_pc' = "analyzing"
            /\ clauses' = seg_result
            /\ batch_pc' = "loop"
            /\ batches' = batches + 1
    /\ UNCHANGED <<uploaded_file, contract_text, extracted_text, analyzed_clauses,
                   client, api_key, requests, last_analysis, service_calls, attempts,
                   constructed, seg_vars, risk_vars, parse_vars, clean_vars,
                   fallback_vars, numbered_vars>>

\* Lines 108-186: the analysis has returned and the results are displayed.
DisplayResults ==
    /\ main_pc = "analyzing"
    /\ batch_pc = "returned"
    /\ main_pc' = "displayed"
    /\ UNCHANGED <<uploaded_file, contract_text, extracted_text, seg_vars, risk_vars,
                   parse_vars, batch_vars, clean_vars, fallback_vars, numbered_vars>>

MainNext ==
    \/ CheckInput
    \/ ExtractText
    \/ ExtractionFails
    \/ UsePastedText
    \/ DetectInMain
    \/ AnalyzeInMain
    \/ AnalyzeClauseWithoutClient
    \/ AnalyzeClauseServiceFails
    \/ AnalyzeClauseServiceAnswers
    \/ ReturnAnalyzed
    \/ DisplayResults

SpecMain == MainInit /\ [][MainNext]_vars

(***************************************************************************)
(* Properties of detect_clauses (checked under SpecSegment)                *)
(***************************************************************************)

Returned == seg_pc = "returned"

Cleaned == clean_text_for_clause_detection(text)

HasNonWhitespace(s) == \E i \in 1..Len(s) : s[i] \notin Whitespace

\* C1, as claimed: for every non-empty input text, also one made only of
\* whitespace, detect_clauses returns at least one clause.
C1_NonEmptyTextGivesClauses ==
    (Returned /\ text # <<>>) => Len(seg_result) >= 1

\* C1, amended: for every input text with at least one non-whitespace
\* character detect_clauses returns at least one clause, and for an empty or
\* whitespace-only text it returns the empty sequence.
C1_NonBlankTextGivesClauses ==
    Returned =>
        /\ HasNonWhitespace(text) => Len(seg_result) >= 1
        /\ ~HasNonWhitespace(text) => seg_result = <<>>

\* A text with a non-whitespace character whose candidates are all dropped
\* by the length filter, so that the whole text is the one clause returned.
C1_Witness ==
    /\ Returned
    /\ HasNonWhitespace(text)
    /\ ChooseClauses(Cleaned) # <<>>
    /\ FilterShort(ChooseClauses(Cleaned)) = <<>>
    /\ seg_result = <<Cleaned>>

\* C2: every clause returned has stripped length greater than 50, or the
\* result is the one-element sequence holding the whole normalized text.
C2_LongClausesOrWholeText ==
    Returned =>
        \/ \A i \in 1..Len(seg_result) : Len(Strip(seg_result[i])) > 50
        \/ seg_result = <<Cleaned>>

\* A call in which the filter dropped some candidates and kept others.
C2_Witness ==
    /\ Returned
    /\ Len(seg_result) >= 2
    /\ Len(ChooseClauses(Cleaned)) > Len(seg_result)

\* Some numbered-section pattern has at least two line-start matches.
NumberedPatternMatches(s) ==
    \E k \in 1..NumPatterns : Len(NumberedStarts(k, s, LineStarts(s))) >= 2

\* The header-keyword pattern has at least two line-start matches.
HeaderPatternMatches(s) == Len(HeaderStarts(s)) >= 2

\* The result of the numbered strategy: detect_numbered_clauses followed by
\* the post-filter (with its whole-text fallback).
NumberedStrategyResult(s) == OrWholeText(FilterShort(detect_numbered_clauses(s)), s)

\* C3, as claimed: when a numbered-section pattern has at least 2 matches and
\* the header-keyword pattern has at least 2 matches too, the result of
\* detect_clauses is the numbered-strategy result.
C3_NumberedPreferred ==
    (Returned /\ HasNonWhitespace(text)
        /\ NumberedPatternMatches(Cleaned) /\ HeaderPatternMatches(Cleaned))
    => seg_result = NumberedStrategyResult(Cleaned)

\* The text has exactly two line-start `N.` markers, the first at its start,
\* no header keyword at a line start, and at most 100 characters in all.
TwoShortNumberedSections(s) ==
    /\ NumberedStarts(1, s, LineStarts(s)) # <<>>
    /\ Len(NumberedStarts(1, s, LineStarts(s))) = 2
    /\ NumberedStarts(1, s, LineStarts(s))[1] = 1
    /\ HeaderStarts(s) = <<>>
    /\ Len(s) <= 100

Hit(c, clause) ==
    \E k \in 1..Len(risk_patterns[c].keywords) :
        \E i \in 1..Len(clause) :
            LET w == risk_patterns[c].keywords[k]
            IN  /\ i + Len(w) - 1 <= Len(clause)
                /\ \A j \in 1..Len(w) : LowerChar(clause[i + j - 1]) = w[j]

RECURSIVE ExpectedRisks(_, _)
\* The descriptions of the hit categories from category c on, in catalog
\* order, each once, joined by "; ".
ExpectedRisks(c, clause) ==
    IF c > 10 THEN <<>>
    ELSE LET rest == ExpectedRisks(c + 1, clause)
         IN  IF ~Hit(c, clause) THEN rest
             ELSE IF rest = <<>> THEN risk_patterns[c].description
             ELSE risk_patterns[c].description \o <<";", " ">> \o rest

\* The result for a clause text with "auto-renew" and "indemnify".
AutoRenewalThenIndemnification ==
    <<"A", "u", "t", "o", "m", "a", "t", "i", "c", " ", "r", "e", "n", "e", "w", "a",
      "l", " ", "c", "l", "a", "u", "s", "e", " ", "-", " ", "m", "a", "y", " ", "l",
      "o", "c", "k", " ", "y", "o", "u", " ", "i", "n", "t", "o", " ", "o", "n", "g",
      "o", "i", "n", "g", " ", "c", "o", "m", "m", "i", "t", "m", "e", "n", "t", "s",
      ";", " ", "I", "n", "d", "e", "m", "n", "i", "f", "i", "c", "a", "t", "i", "o",
      "n", " ", "c", "l", "a", "u", "s", "e", " ", "-", " ", "y", "o", "u", " ", "m",
      "a", "y", " ", "b", "e", " ", "r", "e", "q", "u", "i", "r", "e", "d", " ", "t",
      "o", " ", "c", "o", "v", "e", "r", " ", "l", "e", "g", "a", "l", " ", "c", "o",
      "s", "t", "s", " ", "a", "n", "d", " ", "d", "a", "m", "a", "g", "e", "s">>

\* C10: the result is the descriptions of exactly the hit categories, each
\* once, in catalog order (auto-renewal first, confidentiality last), joined
\* by "; ", and the empty string when no category is hit; a text with
\* "auto-renew" and "indemnify" gets the two descriptions in catalog order.
C10_HitCategoriesInCatalogOrder ==
    risk_pc = "returned" =>
        /\ risk_result = ExpectedRisks(1, clause_text)
        /\ (risk_result = <<>>) = (\A c \in 1..10 : ~Hit(c, clause_text))
        /\ risk_patterns[1].name = "auto_renewal"
        /\ risk_patterns[10].name = "confidentiality_overreach"
        /\ clause_text \in {ClauseOf(<<1, 2>>, 1), ClauseOf(<<2, 1>>, 1)} =>
             risk_result = AutoRenewalThenIndemnification

\* The matcher has returned for an upper-case "INDEMNIFY" followed by
\* "Auto-Renew" and "evergreen": two categories hit, in the other order and
\* one of them twice.
C10_Witness ==
    /\ risk_pc = "returned"
    /\ clause_text = ClauseOf(<<2, 1, 8>>, 1)
    /\ Hit(1, clause_text) /\ Hit(4, clause_text)
    /\ risk_result = AutoRenewalThenIndemnification

(***************************************************************************)
(* Properties of parse_gemini_response (checked under SpecParse)           *)
(***************************************************************************)

\* C7, as claimed: parse_gemini_response never raises; for every response,
\* also one that is valid JSON but no object, it returns a record.
C7_ParseNeverRaises ==
    parse_pc = "returned" => ~parse_result.raised

\* The response decodes as a JSON object: it is an object, bare or in a
\* ```json fence.
DecodesAsObject(r) == r.kind = "object" /\ r.wrap \in {"plain", "fenced"}

\* The value the object of the response gives a key.
Given(r, k) == ValueOptions[k][r.choice[k]].val

\* C8, as claimed: for a response that decodes as a JSON object with any
\* subset of the five keys, the returned record has all five fields; missing
\* clause_type, summary, risk_flag take "Unknown", "No summary available",
\* false, a missing confidence takes 0.7, and with risk_flag false and
\* risk_reason absent the risk_reason of the record is the empty string.
C8_AllFiveFieldsPresent ==
    (parse_pc = "returned" /\ DecodesAsObject(response)) =>
        /\ ~parse_result.raised
        /\ DOMAIN parse_result.value = KeySet
        /\ response.choice["clause_type"] = 0 => parse_result.value["clause_type"] = Str(Unknown)
        /\ response.choice["summary"] = 0 => parse_result.value["summary"] = Str(NoSummary)
        /\ response.choice["risk_flag"] = 0 => parse_result.value["risk_flag"] = Bool(FALSE)
        /\ response.choice["confidence"] = 0 => parse_result.value["confidence"] = Num(70)
        /\ (response.choice["risk_flag"] # 0 /\ Given(response, "risk_flag") = Bool(FALSE)
               /\ response.choice["risk_reason"] = 0)
           => parse_result.value["risk_reason"] = Str(<<>>)

\* The risk_flag the record ends with is true in Python's sense.
FlagSet(r) == r.choice["risk_flag"] # 0 /\ Truthy(Given(r, "risk_flag"))

\* C8, amended: the returned record has the four fields clause_type,
\* summary, risk_flag and confidence, with the claimed defaults for the
\* missing ones and the given values for the others; risk_reason is in the
\* record only when the object has it or risk_flag is set, so with risk_flag
\* false and risk_reason absent the record has no risk_reason field.
C8_FourFieldsPresent ==
    (parse_pc = "returned" /\ DecodesAsObject(response)) =>
        LET rec == parse_result.value
        IN  /\ ~parse_result.raised
            /\ KeySet \ {"risk_reason"} \subseteq DOMAIN rec
            /\ DOMAIN rec \subseteq KeySet
            /\ \A k \in KeySet \ {"risk_reason"} :
                   response.choice[k] # 0 => rec[k] = Given(response, k)
            /\ response.choice["clause_type"] = 0 => rec["clause_type"] = Str(Unknown)
            /\ response.choice["summary"] = 0 => rec["summary"] = Str(NoSummary)
            /\ response.choice["risk_flag"] = 0 => rec["risk_flag"] = Bool(FALSE)
            /\ response.choice["confidence"] = 0 => rec["confidence"] = Num(70)
            /\ "risk_reason" \in DOMAIN rec
                   <=> (response.choice["risk_reason"] # 0 \/ FlagSet(response))
            /\ "risk_reason" \in DOMAIN rec =>
                   rec["risk_reason"] =
                       IF FlagSet(response)
                             /\ (response.choice["risk_reason"] = 0
                                   \/ ~Truthy(Given(response, "risk_reason")))
                       THEN Str(NoReason)
                       ELSE Given(response, "risk_reason")

\* The example of the specification has been parsed: a fenced object with
\* clause_type, summary and risk_flag false, and neither risk_reason nor
\* confidence.
C8_Witness ==
    /\ parse_pc = "returned"
    /\ response.wrap = "fenced"
    /\ response.kind = "object"
    /\ response.choice = [clause_type |-> 1, summary |-> 1, risk_flag |-> 2,
                          risk_reason |-> 0, confidence |-> 0]
    /\ ~parse_result.raised
    /\ parse_result.value["confidence"] = Num(70)

(***************************************************************************)
(* Properties of analyze_clauses_with_gemini and analyze_single_clause     *)
(* (checked under SpecAnalyze)                                             *)
(***************************************************************************)

\* The service call failed: it raised, or gave an empty or no text.
ServiceFailed(service) ==
    service.kind \in {"raise", "none"} \/ (service.kind = "text" /\ service.text = <<>>)

\* The service call gave a text.
ServiceAnswered(service) == service.kind = "text" /\ service.text # <<>>

\* C5: analyze_clauses_with_gemini returns, whatever succeeds and fails, a
\* list of the length of the input in which result i has the original_text
\* of clause i.
C5_OneRecordPerClauseInOrder ==
    /\ batch_pc # "raised"
    /\ Len(analyzed_clauses) <= Len(clauses)
    /\ batch_pc = "returned" =>
          /\ Len(analyzed_clauses) = Len(clauses)
          /\ \A i \in 1..Len(clauses) :
                 analyzed_clauses[i]["original_text"] = Str(clauses[i])

\* A batch of two different clauses has returned, the first with a failed
\* request and the second with an answer.
C5_Witness ==
    /\ batch_pc = "returned"
    /\ Len(clauses) >= 2
    /\ clauses[1] # clauses[2]
    /\ requests[1].kind = "raise"
    /\ ServiceAnswered(requests[2])

\* The record of a clause whose request the service answered with the text.
AnsweredRecord(clause, response_chars) ==
    LET parsed == parse_gemini_response(response_chars)
    IN  IF parsed.raised THEN FallbackData(clause)
        ELSE ClauseData(clause,
                        MergeKeywordRisks(parsed.value, detect_keyword_based_risks(clause)))

\* C6: when the service call of clause i fails (raises, or gives an empty or
\* no text), the record of clause i is the fallback record (clause_type
\* "Unknown", risk_flag true, confidence 0.0, a risk_reason saying the AI
\* analysis could not be completed), the batch does not raise, and the
\* record of every other clause is what its own answer alone gives.
C6_FailureGivesFallbackOnly ==
    /\ batch_pc # "raised"
    /\ \A i \in 1..Len(analyzed_clauses) :
         /\ ServiceFailed(requests[i]) =>
              /\ analyzed_clauses[i]["clause_type"] = Str(Unknown)
              /\ analyzed_clauses[i]["risk_flag"] = Bool(TRUE)
              /\ analyzed_clauses[i]["confidence"] = Num(0)
              /\ analyzed_clauses[i]["risk_reason"] = Str(CouldNotAnalyze)
              /\ analyzed_clauses[i]["summary"] = Str(AnalysisFailed)
              /\ analyzed_clauses[i]["original_text"] = Str(clauses[i])
         /\ ServiceAnswered(requests[i]) =>
              analyzed_clauses[i] = AnsweredRecord(clauses[i], requests[i].text)

\* A request with an empty text, then an answered one for the same clause
\* text: the first record is the fallback record, the second is not.
C6_Witness ==
    /\ Len(analyzed_clauses) = 2
    /\ requests[1] = ServiceAnswers(<<>>)
    /\ ServiceAnswered(requests[2])
    /\ clauses[1] = clauses[2]
    /\ analyzed_clauses[1] = FallbackData(clauses[1])
    /\ analyzed_clauses[2]["clause_type"] # Str(Unknown)
    /\ analyzed_clauses[2]["risk_flag"] = Bool(FALSE)

\* The last analyze_single_clause returned: the clause, the parsed record of
\* the answer and the result of the keyword matcher.
LastClause == clauses[Len(requests)]

LastParsed == parse_gemini_response(requests[Len(requests)].text).value

LastRisks == detect_keyword_based_risks(LastClause)

LastReturned ==
    /\ requests # <<>>
    /\ ServiceAnswered(requests[Len(requests)])
    /\ ~last_analysis.raised

\* C9: in a successful analyze_single_clause, with a non-empty matcher result
\* and a parsed record whose risk_flag is false, the returned record has
\* risk_flag true and the matcher's result as risk_reason; with a parsed
\* record whose risk_flag is true, or with an empty matcher result, the
\* parsed record is returned unchanged.
C9_MatcherOverridesOnlyUnflagged ==
    LastReturned =>
        /\ (LastRisks # <<>> /\ LastParsed["risk_flag"] = Bool(FALSE)) =>
              /\ last_analysis.value["risk_flag"] = Bool(TRUE)
              /\ last_analysis.value["risk_reason"] = Str(LastRisks)
              /\ \A k \in DOMAIN LastParsed \ {"risk_flag", "risk_reason"} :
                     last_analysis.value[k] = LastParsed[k]
        /\ LastParsed["risk_flag"] = Bool(TRUE) => last_analysis.value = LastParsed
        /\ LastRisks = <<>> => last_analysis.value = LastParsed

\* analyze_single_clause returned for a clause with a risk keyword and an
\* answer whose risk_flag is true, with the reason of the answer.
C9_Witness ==
    /\ LastReturned
    /\ LastRisks # <<>>
    /\ LastParsed["risk_flag"] = Bool(TRUE)
    /\ "risk_reason" \in DOMAIN LastParsed
    /\ last_analysis.value["risk_reason"] # Str(LastRisks)

\* C11: every record of analyze_clauses_with_gemini, for any answer of the
\* model (also a JSON object with a confidence outside [0,1] or a risk_flag
\* that is no JSON boolean), has a risk_flag that is true or false and a
\* confidence that is a number in [0,1].
C11_FlagBooleanConfidenceInUnitRange ==
    \A i \in 1..Len(analyzed_clauses) :
        /\ analyzed_clauses[i]["risk_flag"].t = "bool"
        /\ analyzed_clauses[i]["confidence"].t = "num"
        /\ analyzed_clauses[i]["confidence"].n >= 0
        /\ analyzed_clauses[i]["confidence"].n <= 100

(***************************************************************************)
(* Properties of clean_text_for_clause_detection (checked under SpecClean) *)
(***************************************************************************)

\* The text has n consecutive characters c somewhere.
HasRun(s, c, n) ==
    \E i \in 1..(Len(s) - n + 1) : \A j \in 0..(n - 1) : s[i + j] = c

\* C12: for every raw text over characters including the space, \n and \r,
\* the output of clean_text_for_clause_detection has no carriage return, no
\* run of three or more newlines and no run of two or more spaces.
C12_CleanedTextIsNormalized ==
    clean_pc = "returned" =>
        /\ ~HasRun(cleaned_text, "\r", 1)
        /\ ~HasRun(cleaned_text, "\n", 3)
        /\ ~HasRun(cleaned_text, " ", 2)

\* C13: in one run of analyze_clauses_with_gemini the generation service is
\* called at most once for each clause: after a failed or empty response for
\* a clause there is no second call for it, its fallback record is there at
\* once and the loop is at the next clause.
C13_AtMostOneCallPerClause ==
    /\ \A j, k \in 1..Len(service_calls) : j < k => service_calls[j] < service_calls[k]
    /\ \A k \in 1..Len(service_calls) : service_calls[k] \in 1..Len(clauses)
    /\ Len(analyzed_clauses) = Len(requests)
    /\ \A i \in 1..Len(requests) :
           ServiceFailed(requests[i]) =>
               /\ Cardinality({k \in 1..Len(service_calls) : service_calls[k] = i}) = 1
               /\ analyzed_clauses[i] = FallbackData(clauses[i])

\* Two clauses whose calls both failed, the first with an empty text: each
\* was called once, and the run has returned.
C13_Witness ==
    /\ batch_pc = "returned"
    /\ Len(clauses) = 2
    /\ requests[1] = ServiceAnswers(<<>>)
    /\ ServiceFailed(requests[2])
    /\ service_calls = <<1, 2>>

\* The client handle in one state: a client is there exactly when one was
\* constructed, and without API key none is, every analysed clause of the
\* run called get_gemini_client, got the fallback record and made no
\* service call.
ClientHandleConsistent ==
    /\ constructed <= 1
    /\ client <=> constructed = 1
    /\ ~api_key =>
          /\ ~client
          /\ attempts = Len(analyzed_clauses)
          /\ service_calls = <<>>
          /\ \A i \in 1..Len(analyzed_clauses) :
                 analyzed_clauses[i] = FallbackData(clauses[i])

\* C18: across the per-clause analyses of one process the shared client is
\* constructed at most once and never reset or replaced afterwards; when the
\* construction fails (no API key) the handle stays unset, so every later
\* clause attempts the construction again and gets the fallback record
\* without a service call.
C18_ClientConstructedAtMostOnce ==
    /\ []ClientHandleConsistent
    /\ [][client => (client' /\ constructed' = constructed)]_vars

\* A second run of two clauses that were both sent to the service with the
\* client of the first run: no get_gemini_client call in this run.
C18_Witness ==
    /\ batches = 2
    /\ client
    /\ constructed = 1
    /\ attempts = 0
    /\ service_calls = <<1, 2>>

(***************************************************************************)
(* Properties of parse_non_json_response (checked under SpecFallback)      *)
(***************************************************************************)

\* The word w is at position i of s when letter case is ignored.
WordAt(s, i, w) ==
    /\ i + Len(w) - 1 <= Len(s)
    /\ \A j \in 1..Len(w) : LowerChar(s[i + j - 1]) = w[j]

\* The lower-cased text has one of the six risk words as a substring.
RiskWordIn(s) ==
    \E k \in 1..Len(risk_keywords) : \E i \in 1..Len(s) : WordAt(s, i, risk_keywords[k])

\* The pattern (?:labels)\s*([^\n]+) matches somewhere in s: a label, then
\* whitespace only up to a character that is no newline.
LabelMatches(s, labels) ==
    \E k \in 1..Len(labels) : \E i \in 1..Len(s) :
        /\ WordAt(s, i, labels[k])
        /\ \E j \in (i + Len(labels[k]))..Len(s) :
               /\ s[j] # "\n"
               /\ \A h \in (i + Len(labels[k]))..(j - 1) : s[h] \in Whitespace

\* C14: parse_non_json_response returns risk_flag true with the reason
\* "Potential risks mentioned in analysis" exactly when the lower-cased
\* response has one of risk, danger, concern, warning, caution, problematic
\* as a substring, else risk_flag false with the empty reason; confidence is
\* 0.5; clause_type and summary are "Unknown" and "Could not parse AI
\* response properly" unless their label pattern matches.
C14_RiskWordsAndDefaults ==
    fallback_pc = "returned" =>
        /\ DOMAIN fallback_result = KeySet
        /\ fallback_result["risk_flag"] = Bool(RiskWordIn(fallback_text))
        /\ fallback_result["risk_reason"] =
               (IF RiskWordIn(fallback_text) THEN Str(RisksMentioned) ELSE Str(<<>>))
        /\ fallback_result["confidence"] = Num(50)
        /\ ~LabelMatches(fallback_text, type_labels) =>
               fallback_result["clause_type"] = Str(Unknown)
        /\ ~LabelMatches(fallback_text, summary_labels) =>
               fallback_result["summary"] = Str(CouldNotParse)

\* A response whose only risk word is in upper case and that has a clause
\* type label: the flag is set, the type is recovered and the summary is
\* the default.
C14_Witness ==
    /\ fallback_pc = "returned"
    /\ RiskWordIn(fallback_text)
    /\ ~MentionsRiskCaseSensitive(fallback_text)
    /\ fallback_result["risk_flag"] = Bool(TRUE)
    /\ LabelMatches(fallback_text, type_labels)
    /\ fallback_result["clause_type"] = Str(<<"N", "D", "A">>)
    /\ fallback_result["summary"] = Str(CouldNotParse)

\* The positions where a summary label stands that is followed, on its own
\* line, by a character that is not whitespace.
SummaryLabelsAt(s) ==
    {i \in 1..Len(s) :
        \E k \in 1..Len(summary_labels) :
            /\ WordAt(s, i, summary_labels[k])
            /\ \E j \in (i + Len(summary_labels[k]))..Len(s) :
                   /\ s[j] \notin Whitespace
                   /\ \A h \in (i + Len(summary_labels[k]))..(j - 1) :
                          s[h] \in Whitespace \ {"\n"}}

\* The first summary label of s has text behind it on its own line.
SummaryLabelled(s) ==
    /\ SummaryLabelsAt(s) # {}
    /\ \A q \in 1..Len(s) :
           (\E k \in 1..Len(summary_labels) : WordAt(s, q, summary_labels[k])) =>
               \E p \in SummaryLabelsAt(s) : p <= q

\* The position after the label that stands at position i of s.
AfterLabel(s, i) ==
    i + Len(summary_labels[CHOOSE k \in 1..Len(summary_labels) : WordAt(s, i, summary_labels[k])])

\* The position of the newline that ends the last line before the first
\* empty line at or after position a, or the position after the text.
BlankLineFrom(s, a) ==
    LET ends == {e \in a..(Len(s) - 1) : s[e] = "\n" /\ s[e + 1] = "\n"}
    IN  IF ends = {} THEN Len(s) + 1
        ELSE CHOOSE e \in ends : \A f \in ends : e <= f

\* The text from the first summary label to the next empty line, stripped.
SummaryToBlankLine(s) ==
    LET i == CHOOSE p \in SummaryLabelsAt(s) : \A q \in SummaryLabelsAt(s) : p <= q
        a == AfterLabel(s, i)
    IN  Strip(SubSeq(s, a, BlankLineFrom(s, a) - 1))

\* C15: when the response has a "summary:" or "explanation:" label with
\* text behind it, the summary recovered by parse_non_json_response is the
\* text that follows the label up to the next blank line or the end of the
\* response: every non-blank line is there in full, a line with a colon
\* too, and nothing that comes after the blank line.
C15_SummaryRunsToBlankLine ==
    (fallback_pc = "returned" /\ SummaryLabelled(fallback_text)) =>
        fallback_result["summary"] = Str(SummaryToBlankLine(fallback_text))

(***************************************************************************)
(* Properties of detect_numbered_clauses (checked under SpecNumbered)      *)
(***************************************************************************)

\* The patterns with at least two matches in s.
Qualifying(s) ==
    {k \in 1..NumPatterns : Len(NumberedStarts(k, s, LineStarts(s))) >= MinNumbered}

\* The match starts of the first qualifying pattern.
FirstQualifyingStarts(s) ==
    NumberedStarts(CHOOSE k \in Qualifying(s) : \A j \in Qualifying(s) : k <= j,
                   s, LineStarts(s))

\* The position after the part of s that belongs to match i.
PartEnd(s, starts, i) == IF i < Len(starts) THEN starts[i + 1] ELSE Len(s) + 1

\* `result` is s split at `starts`: one clause for each start, in order; each
\* clause is the stripped text from its start up to the next start, is not
\* empty, and lies inside that part of the text, so that no two clauses
\* overlap and nothing before the first start is in a clause.
IsSplitAt(s, starts, result) ==
    /\ \A i \in 1..(Len(starts) - 1) : starts[i] < starts[i + 1]
    /\ Len(result) = Len(starts)
    /\ \A i \in 1..Len(starts) :
           /\ result[i] = Strip(SubSeq(s, starts[i], PartEnd(s, starts, i) - 1))
           /\ \E a \in starts[i]..(PartEnd(s, starts, i) - 1) :
                  \E b \in a..(PartEnd(s, starts, i) - 1) :
                      result[i] = SubSeq(s, a, b)

\* C16: when a pattern has at least two matches, detect_numbered_clauses
\* returns one clause for each match start of the first such pattern, in
\* document order; clause i is the stripped text from start i up to start
\* i+1 (the end of the text for the last); the clauses do not overlap and
\* the text before the first start is in no clause.
C16_SplitAtMatchStarts ==
    (numbered_pc = "returned" /\ Qualifying(numbered_text) # {}) =>
        IsSplitAt(numbered_text, FirstQualifyingStarts(numbered_text), numbered_result)

\* A text that begins with a line of another pattern and then has two
\* matches of the first qualifying pattern: two clauses, the first line in
\* neither.
C16_Witness ==
    /\ numbered_pc = "returned"
    /\ Qualifying(numbered_text) # {}
    /\ 1 \notin Qualifying(numbered_text)
    /\ Len(FirstQualifyingStarts(numbered_text)) = 2
    /\ FirstQualifyingStarts(numbered_text)[1] > 1
    /\ numbered_text[1] \notin Whitespace
    /\ Len(numbered_result) = 2

(***************************************************************************)
(* Properties of main (checked under SpecMain)                              *)
(***************************************************************************)

\* The request has its text: the pasted one, or the one extracted from the
\* file once the extraction has returned.
HasInputText ==
    IF uploaded_file THEN main_pc \notin {"clicked", "extract", "failed"} ELSE TRUE

\* The text of the request.
InputText == IF uploaded_file THEN extracted_text ELSE contract_text

\* detect_clauses has not been called in this request.
NotSegmented == seg_pc = "idle" /\ seg_result = <<>>

\* The generation service has not been called in this request, and
\* analyze_clauses_with_gemini neither.
ServiceNotCalled == service_calls = <<>> /\ requests = <<>> /\ batch_pc = "idle"

\* C17: when the text of a request to main is empty after trimming, or the
\* extraction of the text fails, the request ends before segmentation:
\* detect_clauses is not called and the generation service is not called;
\* and the service is called only after detect_clauses has returned a list
\* of clauses that is not empty.
C17_EmptyInputEndsBeforeSegmentation ==
    /\ (main_pc = "failed" \/ (HasInputText /\ IsBlank(InputText))) =>
           /\ NotSegmented
           /\ ServiceNotCalled
           /\ main_pc \in {"clicked", "extract", "extracted", "ended", "failed"}
    /\ ~ServiceNotCalled =>
           /\ seg_pc = "returned"
           /\ seg_result # <<>>
           /\ clauses = seg_result

\* A file was uploaded whose text is empty, next to a pasted text: the
\* request has ended without a call of detect_clauses.
C17_Witness ==
    /\ main_pc = "ended"
    /\ uploaded_file
    /\ extracted_text = <<>>
    /\ ~IsBlank(contract_text)
    /\ NotSegmented
    /\ ServiceNotCalled

====
